---- MODULE Spec2Model ----
(***************************************************************************)
(* Blue-tracker: the crawler (bot/crawler.py), the live handler and the   *)
(* replay driver (bot/main.py), the mirror provisioner and the webhook    *)
(* publisher (bot/repost.py), over the SQLite store of bot/db.py.          *)
(*                                                                         *)
(* One cooperative asyncio loop runs every task, so the code between two   *)
(* awaits is one atomic step; each action below is such a stretch.         *)
(***************************************************************************)
EXTENDS Integers, Sequences, FiniteSets, TLC

\* ---------------------------------------------------------------- bounds
\* The size of the source guild: the messages it ever holds (ids 1, 2, ...), a
\* thread counting for two (a guild of one channel holds up to MaxSize messages,
\* a guild of a channel and a thread MaxSize - 2).
MaxSize == 3
\* How many of the messages are posted while the bot runs; the others are there
\* when it starts.
MaxNew == 1
\* config.PAGE_SIZE (50 in config.py:22), scaled down so that a channel spans pages.
PAGE_SIZE == 2
\* The "every 100 sweeps" period of crawler.py:269, scaled down.
CLEAR_EVERY == 2
\* Messages 1..LegacyMaxId were posted up to on_ready's fixed date (2025-06-21); only
\* those can be older than slow_crawl's cutoff (now - CUTOFF_DAYS, ten years).
LegacyMaxId == 1

\* ------------------------------------------------------- the source guild
\* src_guild.text_channels with the threads iter_all_threads yields for each, in
\* sweep order: the text channel "c1" alone, or "c1" and its thread "t1".
Guilds == { << [ch |-> "c1", parent |-> "none"] >>,
            << [ch |-> "c1", parent |-> "none"], [ch |-> "t1", parent |-> "c1"] >> }
ChannelsOf(g) == {g[i].ch : i \in 1..Len(g)}
\* isinstance(ch, discord.Thread), ch.parent_id, ch.name
IsThread(ch) == ch \in {"t1", "t2"}
ParentId(ch) == "c1"
ChannelName(ch) == ch

\* config.IGNORED_CHANNELS: a text channel and a thread of "c1". The guilds above
\* hold neither; those of IgnoredGuilds do.
IGNORED_CHANNELS == {"x1", "t2"}
IgnoredGuilds == { << [ch |-> "x1", parent |-> "none"], [ch |-> "c1", parent |-> "none"] >>,
                   << [ch |-> "c1", parent |-> "none"], [ch |-> "t2", parent |-> "c1"] >> }
\* Authors: "gm" is a seed id of config.SEED_BLUE_IDS and holds a role of
\* config.TRACKED, "player" is neither.
Authors == {"gm", "player"}
TRACKED_ROLE_HOLDERS == {"gm"}
SEED_BLUE_IDS == {"gm"}
\* u.display_name or u.name
DisplayName(a) == "n1"
NULL == "NULL"

VARIABLES
  targets,                \* the source guild's channels and threads, in sweep order
  msgs,                   \* the source guild's messages: id i is msgs[i] = [chan, author, old]
  arrivals,               \* how many of them were posted since Init
  posts,                  \* table posts: rows [id, chan, author, replayed]
  progress,               \* table crawl_progress: chan_id -> last_seen_id
  chans,                  \* table channels: chan_id -> [name, accessible, parent_id]
  authors,                \* table authors: author_id -> author_name or NULL
  disk,                   \* posts, crawl_progress and authors as of the last commit
  inaccessible_channels,  \* crawler.inaccessible_channels
  finished_channels,      \* crawler.finished_channels
  blue_ids,               \* main.blue_ids
  cr,                     \* the crawl_one call in progress
  sweep,                  \* slow_crawl: position in the sweep, sweep_number mod CLEAR_EVERY
  live,                   \* on_message handlers in flight: message id -> position
  sent,                   \* messages delivered to the mirror: [id, via]
  rp,                     \* the replay_all call
  ws,                     \* a safe_webhook_send call
  em,                     \* the ensure_mirror calls in flight, one per calling task
  mirror_cache,           \* repost.mirror_cache: source channel -> destination id
  dst,                    \* the destination guild's categories, channels and threads
  aa,                     \* the db_add_author calls in flight, one per calling task
  wh_cache,               \* repost.wh_cache: destination channel -> webhook
  hooks,                  \* how many webhooks named BlueTracker each destination channel has
  gw,                     \* the get_webhook calls in flight, one per calling task
  xr,                     \* an execute_with_retry call
  gm_names,               \* table gm_names: author_id -> gm_name
  gn                      \* a get_gm_display_name call

vars == << targets, msgs, arrivals, posts, progress, chans, authors, disk,
           inaccessible_channels, finished_channels, blue_ids, cr, sweep, live, sent,
           rp, ws, em, mirror_cache, dst, aa, wh_cache, hooks, gw, xr, gm_names, gn >>
\* The crawler's and the live handler's own state, the publisher's, the provisioner's.
crawlVars == << arrivals, progress, chans, authors, inaccessible_channels,
                finished_channels, blue_ids, cr, sweep, live >>
sendVars == << ws >>
mirrorVars == << em, mirror_cache, dst >>
authorVars == << aa >>
webhookVars == << wh_cache, hooks, gw >>
retryVars == << xr >>
nameVars == << gm_names, gn >>

\* ------------------------------------------------------------- helpers
Min(S) == CHOOSE x \in S : \A y \in S : x <= y
Max(S) == CHOOSE x \in S : \A y \in S : x >= y
Put(f, k, v) == [x \in (DOMAIN f) \cup {k} |-> IF x = k THEN v ELSE f[x]]
NoRows == [x \in {} |-> 0]
Range(s) == {s[i] : i \in 1..Len(s)}

\* ---------------------------------------------------------------- store
\* INSERT INTO posts: id is the PRIMARY KEY, a second row with the id is refused.
PostIds(tbl) == {r.id : r \in tbl}
NoPrimaryKey(tbl, id) == TRUE
InsertPostAllowed(tbl, id) == id \notin PostIds(tbl)
PostRow(id, replayed) ==
  [id |-> id, chan |-> msgs[id].chan, author |-> msgs[id].author, replayed |-> replayed]
\* INSERT OR IGNORE INTO posts (main.db_add_post).
db_add_post(tbl, id, already_replayed) ==
  IF InsertPostAllowed(tbl, id)
  THEN tbl \cup {PostRow(id, IF already_replayed THEN 1 ELSE 0)}
  ELSE tbl

\* INSERT OR IGNORE INTO authors VALUES (u.id, name)
insert_or_ignore_author(tbl, a, name) ==
  IF a \notin DOMAIN tbl THEN Put(tbl, a, name) ELSE tbl
\* UPDATE authors SET author_name = name WHERE author_id = u.id AND author_name IS NULL
UpdatesAnyName(tbl, a, name) == IF a \in DOMAIN tbl THEN Put(tbl, a, name) ELSE tbl
update_null_author(tbl, a, name) ==
  IF a \in DOMAIN tbl /\ tbl[a] = NULL THEN Put(tbl, a, name) ELSE tbl
\* main.db_add_author with nothing running between its two statements.
db_add_author(tbl, a, name) ==
  update_null_author(insert_or_ignore_author(tbl, a, name), a, name)

\* INSERT OR REPLACE INTO channels.
SavesAsAccessible(tbl, ch, accessible, parent_id) ==
  Put(tbl, ch, [name |-> ChannelName(ch), accessible |-> 1, parent_id |-> parent_id])
save_channel(tbl, ch, accessible, parent_id) ==
  Put(tbl, ch, [name |-> ChannelName(ch), accessible |-> IF accessible THEN 1 ELSE 0,
                parent_id |-> parent_id])

\* config.GM_NAME_OVERRIDES: the seed author has an entry, keyed by the integer id.
GM_NAME_OVERRIDES == [a \in SEED_BLUE_IDS |-> "seed_name"]
\* on_ready: INSERT OR REPLACE INTO gm_names (author_id, gm_name) for every entry
\* of GM_NAME_OVERRIDES.
on_ready_gm_names(tbl) ==
  [a \in (DOMAIN tbl) \cup (DOMAIN GM_NAME_OVERRIDES) |->
     IF a \in DOMAIN GM_NAME_OVERRIDES THEN GM_NAME_OVERRIDES[a] ELSE tbl[a]]

\* crawl_progress first, MAX(id) of the channel's posts otherwise, None (0) otherwise.
get_last_seen_id(ch) ==
  IF ch \in DOMAIN progress /\ progress[ch] # 0 THEN progress[ch]
  ELSE LET ids == {r.id : r \in {p \in posts : p.chan = ch}}
       IN IF ids # {} THEN Max(ids) ELSE 0

\* INSERT OR REPLACE INTO crawl_progress.
update_last_seen_id(tbl, ch, message_id) == Put(tbl, ch, message_id)

\* db.commit(): the rows a restart finds. Rows of channels are written by save_channel
\* with no commit of its own and reach the file with the connection's next commit;
\* nothing reads them back, and the model keeps them as written.
Committed(p, g, a) == [posts |-> p, progress |-> g, authors |-> a]

\* ---------------------------------------------------------------- repost
should_repost(m) ==
  /\ msgs[m].chan \notin IGNORED_CHANNELS
  /\ (msgs[m].author \in blue_ids \/ msgs[m].author \in TRACKED_ROLE_HOLDERS)

\* --------------------------------------------------------- remote history
\* ch.history(limit=PAGE_SIZE, before=b, oldest_first=False): the newest PAGE_SIZE
\* messages of the channel with an id below b (any id when b is None), newest first.
RECURSIVE NewestFirst(_, _)
NewestFirst(S, n) ==
  IF S = {} \/ n = 0 THEN << >>
  ELSE << Max(S) >> \o NewestFirst(S \ {Max(S)}, n - 1)
\* The same request anchored with after=: messages with an id above the cursor.
HistoryAfter(ch, before) ==
  NewestFirst({i \in 1..Len(msgs) : msgs[i].chan = ch /\ i > before}, PAGE_SIZE)
History(ch, before) ==
  NewestFirst({i \in 1..Len(msgs) : msgs[i].chan = ch /\ (before = 0 \/ i < before)}, PAGE_SIZE)
Reverse(s) == [i \in 1..Len(s) |-> s[Len(s) + 1 - i]]

\* ------------------------------------------------------------------ Init
IdleCall ==
  [pc |-> "idle", ch |-> "none", earliest_seen |-> 0, page |-> << >>, idx |-> 0,
   new_earliest |-> 0, outcome |-> "none",
   \* what the call started from and what it inserted, kept for the properties
   fin0 |-> FALSE, prog0 |-> 0, inserted |-> {}]

\* The histories the guild may hold: timestamps grow with ids, and only messages
\* up to LegacyMaxId can be older than the cutoff.
Message(g) == [chan : ChannelsOf(g), author : Authors, old : BOOLEAN]
WellAged(h) ==
  \A i \in 1..Len(h) : h[i].old => i <= LegacyMaxId /\ \A j \in 1..i : h[j].old
MaxMsg(g) == MaxSize - 2 * (Len(g) - 1)
Histories(g) == UNION {{h \in [1..n -> Message(g)] : WellAged(h)} : n \in 0..MaxMsg(g)}

\* slow_crawl enters its first sweep: sweep_number is 1. The field cleared marks
\* the state in which a sweep has just emptied a non-empty inaccessible_channels.
FirstSweep == [pos |-> 1, sweep_number |-> 1 % CLEAR_EVERY, cleared |-> FALSE]

\* Nothing in progress in the replay driver, the publisher and the provisioner.
Tasks == {"live", "replay"}
IdleReplay ==
  [pc |-> "idle", rows |-> << >>, i |-> 0, read |-> {},
   \* the table as the cursor was opened and how each row ended, kept for the
   \* properties
   snapshot |-> {}, handled |-> NoRows]
AuthorTasks == {"crawl", "live"}
IdleAuthors == [t \in AuthorTasks |-> [pc |-> "idle", u |-> "none", name |-> "none"]]
\* The destination channels get_webhook is called for: the central feed and a
\* mirror channel.
DstChannels == {"central", "mirror"}
NoHooks == [ch \in DstChannels |-> 0]
IdleWebhooks == [t \in Tasks |-> [pc |-> "idle", ch |-> "none", wh |-> 0]]
IdleSend == [pc |-> "idle", attempt |-> 0, log |-> << >>]
IdleRetry == [pc |-> "idle", query |-> "none", max_retries |-> 0, attempt |-> 0,
              log |-> << >>, cursor |-> 0]
IdleNames == [pc |-> "idle", caller |-> "none", author |-> "none", row |-> "none",
              stored |-> "none", fallback_name |-> "none", result |-> "none"]
IdleMirror == [pc |-> "idle", src |-> "none", category |-> 0, mirror_parent |-> 0,
               result |-> 0]

\* A fresh store after on_ready (the seed authors are in, with no name yet).
Init ==
  /\ targets \in Guilds
  /\ msgs \in Histories(targets)
  /\ arrivals = 0
  /\ posts = {}
  /\ progress = NoRows
  /\ chans = NoRows
  /\ authors = [a \in SEED_BLUE_IDS |-> NULL]
  /\ disk = Committed({}, NoRows, authors)
  /\ inaccessible_channels = {}
  /\ finished_channels = {}
  /\ blue_ids = SEED_BLUE_IDS
  /\ cr = IdleCall
  /\ sweep = FirstSweep
  /\ live = NoRows
  /\ sent = {}
  /\ rp = IdleReplay
  /\ ws = IdleSend
  /\ em = [t \in Tasks |-> IdleMirror]
  /\ mirror_cache = NoRows
  /\ dst = {}
  /\ aa = IdleAuthors
  /\ wh_cache = NoRows
  /\ hooks = NoHooks
  /\ gw = IdleWebhooks
  /\ xr = IdleRetry
  /\ gm_names = on_ready_gm_names(NoRows)
  /\ gn = IdleNames

\* ---------------------------------------------------------- environment
\* A message is posted in the source guild while the bot runs. The gateway may
\* deliver it to on_message (seen), which returns at once unless should_repost holds.
RemotePost(ch, a, old, seen) ==
  /\ ch \in ChannelsOf(targets)
  /\ Len(msgs) < MaxMsg(targets)
  /\ arrivals < MaxNew
  /\ arrivals' = arrivals + 1
  /\ msgs' = Append(msgs, [chan |-> ch, author |-> a, old |-> old])
  /\ WellAged(msgs')
  /\ seen => ~old
  /\ LET m == Len(msgs) + 1
         tracked == ch \notin IGNORED_CHANNELS /\ (a \in blue_ids \/ a \in TRACKED_ROLE_HOLDERS)
     IN live' = IF seen /\ tracked THEN Put(live, m, "relay") ELSE live
  /\ UNCHANGED << targets, posts, progress, chans, authors, disk, inaccessible_channels,
                  finished_channels, blue_ids, cr, sweep, sent >>
  /\ UNCHANGED << rp, sendVars, mirrorVars, authorVars, webhookVars, retryVars, nameVars >>

\* ------------------------------------------------------------ on_message
\* repost_live: the mirror send succeeds, fails (swallowed by repost_live), or
\* repost_live itself raises before it (on_message's except ends the handler).
on_message_repost(m, result) ==
  /\ m \in DOMAIN live /\ live[m] = "relay"
  /\ sent' = IF result = "sent" THEN sent \cup {[id |-> m, via |-> "live"]} ELSE sent
  /\ live' = IF result = "raised"
             THEN [x \in (DOMAIN live) \ {m} |-> live[x]]
             ELSE [live EXCEPT ![m] = "store"]
  /\ UNCHANGED << targets, msgs, arrivals, posts, progress, chans, authors, disk,
                  inaccessible_channels, finished_channels, blue_ids, cr, sweep >>
  /\ UNCHANGED << rp, sendVars, mirrorVars, authorVars, webhookVars, retryVars, nameVars >>

\* blue_ids.add, db_add_author, db_add_post(already_replayed=True), commit.
on_message_store(m) ==
  /\ m \in DOMAIN live /\ live[m] = "store"
  /\ blue_ids' = blue_ids \cup {msgs[m].author}
  /\ authors' = db_add_author(authors, msgs[m].author, DisplayName(msgs[m].author))
  /\ posts' = db_add_post(posts, m, TRUE)
  /\ disk' = Committed(posts', progress, authors')
  /\ live' = [x \in (DOMAIN live) \ {m} |-> live[x]]
  /\ UNCHANGED << targets, msgs, arrivals, progress, chans, inaccessible_channels,
                  finished_channels, cr, sweep, sent >>
  /\ UNCHANGED << rp, sendVars, mirrorVars, authorVars, webhookVars, retryVars, nameVars >>

\* ------------------------------------------------------------- crawl_one
\* crawl_one returns with this outcome; slow_crawl then sleeps REQ_PAUSE.
Returned(call, outcome) == [call EXCEPT !.pc = "returned", !.outcome = outcome]
CallRow(ch) == IF ch \in DOMAIN progress THEN progress[ch] ELSE 0

\* slow_crawl's "continue" for the channel or thread at the sweep position.
slow_crawl_skip ==
  /\ cr.pc = "idle"
  /\ sweep.pos <= Len(targets)
  /\ LET t == targets[sweep.pos]
     IN IF t.parent = "none"
        THEN \* an ignored or inaccessible channel is passed over with its threads
             /\ t.ch \in IGNORED_CHANNELS \/ t.ch \in inaccessible_channels
             /\ sweep' = [sweep EXCEPT !.pos =
                            Min({i \in (sweep.pos + 1)..(Len(targets) + 1) :
                                   i = Len(targets) + 1 \/ targets[i].parent = "none"})]
        ELSE /\ t.ch \in inaccessible_channels
             /\ sweep' = [sweep EXCEPT !.pos = @ + 1]
  /\ UNCHANGED << targets, msgs, arrivals, posts, progress, chans, authors, disk,
                  inaccessible_channels, finished_channels, blue_ids, cr, live, sent >>
  /\ UNCHANGED << rp, sendVars, mirrorVars, authorVars, webhookVars, retryVars, nameVars >>

\* The skips at the head of crawl_one, in the order of the code.
IgnoredNotChecked(ch) ==
  IF ch \in inaccessible_channels THEN "inaccessible"
  ELSE IF ch \in finished_channels THEN "finished"
  ELSE "none"
FinishedNotChecked(ch) ==
  IF ch \in IGNORED_CHANNELS THEN "ignored"
  ELSE IF ch \in inaccessible_channels THEN "inaccessible"
  ELSE "none"
crawl_one_skips(ch) ==
  IF ch \in IGNORED_CHANNELS THEN "ignored"
  ELSE IF ch \in inaccessible_channels THEN "inaccessible"
  ELSE IF ch \in finished_channels THEN "finished"
  ELSE "none"

\* slow_crawl calls crawl_one, which runs up to its history request: save_channel,
\* the three skips, the permission check, get_last_seen_id.
crawl_one_begin(perm) ==
  /\ cr.pc = "idle"
  /\ sweep.pos <= Len(targets)
  /\ LET ch == targets[sweep.pos].ch
         call == [IdleCall EXCEPT !.ch = ch, !.fin0 = ch \in finished_channels,
                                  !.prog0 = CallRow(ch)]
         saved == save_channel(chans, ch, TRUE, IF IsThread(ch) THEN ParentId(ch) ELSE NULL)
     IN \* slow_crawl has not passed the channel over
        /\ ~(ch \in IGNORED_CHANNELS /\ ~IsThread(ch))
        /\ ch \notin inaccessible_channels
        /\ IF crawl_one_skips(ch) # "none"
           THEN /\ chans' = saved
                /\ cr' = Returned(call, crawl_one_skips(ch))
                /\ UNCHANGED inaccessible_channels
           ELSE IF ~perm
           THEN /\ inaccessible_channels' = inaccessible_channels \cup {ch}
                /\ chans' = save_channel(saved, ch, FALSE, NULL)
                /\ cr' = Returned(call, "no_permission")
           ELSE /\ chans' = saved
                /\ cr' = [call EXCEPT !.pc = "fetch", !.outcome = "running",
                                      !.earliest_seen = get_last_seen_id(ch)]
                /\ UNCHANGED inaccessible_channels
  /\ sweep' = [sweep EXCEPT !.cleared = FALSE]
  /\ UNCHANGED << targets, msgs, arrivals, posts, progress, authors, disk,
                  finished_channels, blue_ids, live, sent >>
  /\ UNCHANGED << rp, sendVars, mirrorVars, authorVars, webhookVars, retryVars, nameVars >>

FetchResults == {"page", "timeout", "forbidden", "http403", "http429", "http5xx",
                 "http_other", "error"}

\* The except clauses of crawl_one: Forbidden and HTTP 403 cache the channel as
\* inaccessible and save it so; every other failure only logs.
DeniedNotCached(result) == FALSE
DeniesTimeout(result) == result \in {"forbidden", "http403", "timeout"}
DeniesRateLimited(result) == result \in {"forbidden", "http403", "http429"}
crawl_one_denied(result) == result \in {"forbidden", "http403"}

\* messages[-1].id after messages.reverse(): the highest id of the page.
HighestOfPage(messages) == Reverse(messages)[Len(messages)]
\* messages[0].id after messages.reverse(): the lowest id of the page.
new_earliest_of(messages) == Reverse(messages)[1]

\* The history request returns: a page, or one of the failures the handlers tell apart.
crawl_one_history(result) ==
  /\ cr.pc = "fetch"
  /\ LET ch == cr.ch
         messages == History(ch, cr.earliest_seen)
     IN CASE result = "page" /\ messages = << >> ->
               /\ finished_channels' = finished_channels \cup {ch}
               /\ cr' = Returned(cr, "empty")
               /\ UNCHANGED << inaccessible_channels, chans >>
          [] result = "page" /\ messages # << >> ->
               /\ cr' = [cr EXCEPT !.pc = "scan", !.page = Reverse(messages), !.idx = 1,
                                   !.new_earliest = new_earliest_of(messages)]
               /\ UNCHANGED << finished_channels, inaccessible_channels, chans >>
          [] result # "page" /\ crawl_one_denied(result) ->
               /\ inaccessible_channels' = inaccessible_channels \cup {ch}
               /\ chans' = save_channel(chans, ch, FALSE, NULL)
               /\ cr' = Returned(cr, result)
               /\ UNCHANGED finished_channels
          [] OTHER ->
               /\ cr' = Returned(cr, result)
               /\ UNCHANGED << finished_channels, inaccessible_channels, chans >>
  /\ UNCHANGED << targets, msgs, arrivals, posts, progress, authors, disk, blue_ids,
                  sweep, live, sent >>
  /\ UNCHANGED << rp, sendVars, mirrorVars, authorVars, webhookVars, retryVars, nameVars >>

\* m.created_at < cutoff
CutoffNotChecked(m) == FALSE
before_cutoff(m) == msgs[m].old

\* One turn of "for m in messages": the cutoff test, the existence check, and for
\* a tracked author blue_ids.add and db_add_author; the INSERT follows after an await.
crawl_one_message ==
  /\ cr.pc = "scan"
  /\ IF cr.idx > Len(cr.page)
     THEN /\ cr' = [cr EXCEPT !.pc = "progress"]
          /\ UNCHANGED << finished_channels, blue_ids, authors >>
     ELSE LET m == cr.page[cr.idx]
          IN IF before_cutoff(m)
             THEN /\ finished_channels' = finished_channels \cup {cr.ch}
                  /\ cr' = [cr EXCEPT !.pc = "progress"]
                  /\ UNCHANGED << blue_ids, authors >>
             ELSE IF m \in PostIds(posts) \/ ~should_repost(m)
             THEN /\ cr' = [cr EXCEPT !.idx = @ + 1]
                  /\ UNCHANGED << finished_channels, blue_ids, authors >>
             ELSE /\ blue_ids' = blue_ids \cup {msgs[m].author}
                  /\ authors' = db_add_author(authors, msgs[m].author,
                                              DisplayName(msgs[m].author))
                  /\ cr' = [cr EXCEPT !.pc = "insert"]
                  /\ UNCHANGED finished_channels
  /\ UNCHANGED << targets, msgs, arrivals, posts, progress, chans, disk,
                  inaccessible_channels, sweep, live, sent >>
  /\ UNCHANGED << rp, sendVars, mirrorVars, authorVars, webhookVars, retryVars, nameVars >>

\* INSERT INTO posts ... replayed 0, then commit. A row with the id (stored by
\* on_message since the existence check) makes the INSERT raise; the call's
\* "except Exception" ends it.
crawl_one_insert ==
  /\ cr.pc = "insert"
  /\ LET m == cr.page[cr.idx]
     IN IF InsertPostAllowed(posts, m)
        THEN /\ posts' = posts \cup {PostRow(m, 0)}
             /\ disk' = Committed(posts', progress, authors)
             /\ cr' = [cr EXCEPT !.pc = "scan", !.idx = @ + 1, !.inserted = @ \cup {m}]
        ELSE /\ cr' = Returned(cr, "integrity_error")
             /\ UNCHANGED << posts, disk >>
  /\ UNCHANGED << targets, msgs, arrivals, progress, chans, authors,
                  inaccessible_channels, finished_channels, blue_ids, sweep, live, sent >>
  /\ UNCHANGED << rp, sendVars, mirrorVars, authorVars, webhookVars, retryVars, nameVars >>

\* After the loop: update_last_seen_id when the page's lowest id differs from the
\* cursor the call started from (the commit follows after an await); the call
\* returns otherwise.
crawl_one_progress ==
  /\ cr.pc = "progress"
  /\ IF cr.new_earliest # 0 /\ cr.new_earliest # cr.earliest_seen
     THEN /\ progress' = update_last_seen_id(progress, cr.ch, cr.new_earliest)
          /\ cr' = [cr EXCEPT !.pc = "commit"]
     ELSE /\ cr' = Returned(cr, "done")
          /\ UNCHANGED progress
  /\ UNCHANGED << targets, msgs, arrivals, posts, chans, authors, disk,
                  inaccessible_channels, finished_channels, blue_ids, sweep, live, sent >>
  /\ UNCHANGED << rp, sendVars, mirrorVars, authorVars, webhookVars, retryVars, nameVars >>

\* await db.commit() after update_last_seen_id; the call returns.
crawl_one_commit ==
  /\ cr.pc = "commit"
  /\ disk' = Committed(posts, progress, authors)
  /\ cr' = Returned(cr, "done")
  /\ UNCHANGED << targets, msgs, arrivals, posts, progress, chans, authors,
                  inaccessible_channels, finished_channels, blue_ids, sweep, live, sent >>
  /\ UNCHANGED << rp, sendVars, mirrorVars, authorVars, webhookVars, retryVars, nameVars >>

\* ------------------------------------------------------------ slow_crawl
\* await asyncio.sleep(REQ_PAUSE) after crawl_one, then the next channel or thread.
slow_crawl_pause ==
  /\ cr.pc = "returned"
  /\ cr' = IdleCall
  /\ sweep' = [sweep EXCEPT !.pos = @ + 1]
  /\ UNCHANGED << targets, msgs, arrivals, posts, progress, chans, authors, disk,
                  inaccessible_channels, finished_channels, blue_ids, live, sent >>
  /\ UNCHANGED << rp, sendVars, mirrorVars, authorVars, webhookVars, retryVars, nameVars >>

\* if sweep_number % 100 == 0: inaccessible_channels.clear()
NoPeriodicClear(sweep_number, cache) == cache
periodic_clear(sweep_number, cache) ==
  IF sweep_number % CLEAR_EVERY = 0 THEN {} ELSE cache

\* The end of a sweep: every CLEAR_EVERY-th sweep empties inaccessible_channels;
\* then the next sweep starts (sweep_number += 1).
slow_crawl_sweep_end ==
  /\ cr.pc = "idle"
  /\ sweep.pos > Len(targets)
  /\ inaccessible_channels' = periodic_clear(sweep.sweep_number, inaccessible_channels)
  /\ sweep' = [pos |-> 1, sweep_number |-> (sweep.sweep_number + 1) % CLEAR_EVERY,
                cleared |-> sweep.sweep_number % CLEAR_EVERY = 0 /\ inaccessible_channels # {}]
  /\ UNCHANGED << targets, msgs, arrivals, posts, progress, chans, authors, disk,
                  finished_channels, blue_ids, cr, live, sent >>
  /\ UNCHANGED << rp, sendVars, mirrorVars, authorVars, webhookVars, retryVars, nameVars >>

\* An exception reaches slow_crawl's "except Exception" from inside a sweep: from
\* crawl_one's save_channel and get_last_seen_id, which run outside its try, or
\* from iter_all_threads, which re-raises an HTTP error that is neither 5xx nor
\* 429. The rest of the sweep is dropped with its cleanup and its periodic clear;
\* after the sleeps the next sweep starts.
slow_crawl_error ==
  /\ cr.pc = "idle"
  /\ sweep.pos <= Len(targets)
  /\ sweep' = [pos |-> 1, sweep_number |-> (sweep.sweep_number + 1) % CLEAR_EVERY,
                cleared |-> FALSE]
  /\ UNCHANGED << targets, msgs, arrivals, posts, progress, chans, authors, disk,
                  inaccessible_channels, finished_channels, blue_ids, cr, live, sent >>
  /\ UNCHANGED << rp, sendVars, mirrorVars, authorVars, webhookVars, retryVars, nameVars >>

\* --------------------------------------------------------------- restart
\* on_ready: UPDATE posts SET replayed = 1 WHERE ts <= the fixed date.
OnReadyResets(tbl) == {[r EXCEPT !.replayed = IF r.id <= LegacyMaxId THEN 1 ELSE 0] : r \in tbl}
on_ready_posts(tbl) ==
  {IF r.id <= LegacyMaxId THEN [r EXCEPT !.replayed = 1] ELSE r : r \in tbl}
\* on_ready: INSERT OR IGNORE INTO authors VALUES (uid, None) for every seed id.
on_ready_authors(tbl) ==
  [a \in (DOMAIN tbl) \cup SEED_BLUE_IDS |-> IF a \in DOMAIN tbl THEN tbl[a] ELSE NULL]

\* The process stops and starts again: what was not committed is gone, the module
\* globals are fresh, and on_ready runs and commits.
Restart ==
  /\ posts' = on_ready_posts(disk.posts)
  /\ progress' = disk.progress
  /\ authors' = on_ready_authors(disk.authors)
  /\ disk' = Committed(posts', progress', authors')
  /\ inaccessible_channels' = {}
  /\ finished_channels' = {}
  /\ blue_ids' = SEED_BLUE_IDS
  /\ cr' = IdleCall
  /\ sweep' = FirstSweep
  /\ live' = NoRows
  /\ rp' = IdleReplay
  /\ ws' = IdleSend
  /\ em' = [t \in Tasks |-> IdleMirror]
  /\ mirror_cache' = NoRows
  /\ aa' = IdleAuthors
  /\ wh_cache' = NoRows
  /\ gw' = IdleWebhooks
  /\ xr' = IdleRetry
  /\ gm_names' = on_ready_gm_names(gm_names)
  /\ gn' = IdleNames
  /\ UNCHANGED hooks
  /\ UNCHANGED << targets, msgs, arrivals, chans, sent, dst >>

\* ------------------------------------------------------------------ Spec
Next ==
  \/ \E ch \in {"c1", "t1"}, a \in Authors, old \in BOOLEAN, seen \in BOOLEAN :
       RemotePost(ch, a, old, seen)
  \/ \E m \in 1..MaxSize, result \in {"sent", "failed", "raised"} : on_message_repost(m, result)
  \/ \E m \in 1..MaxSize : on_message_store(m)
  \/ slow_crawl_skip
  \/ \E perm \in BOOLEAN : crawl_one_begin(perm)
  \/ \E result \in FetchResults : crawl_one_history(result)
  \/ crawl_one_message
  \/ crawl_one_insert
  \/ crawl_one_progress
  \/ crawl_one_commit
  \/ slow_crawl_pause
  \/ slow_crawl_sweep_end
  \/ slow_crawl_error
  \/ Restart

Spec == Init /\ [][Next]_vars

\* The same tasks in a process that is never stopped.
NextRunning ==
  \/ \E ch \in {"c1", "t1"}, a \in Authors, old \in BOOLEAN, seen \in BOOLEAN :
       RemotePost(ch, a, old, seen)
  \/ \E m \in 1..MaxSize, result \in {"sent", "failed", "raised"} : on_message_repost(m, result)
  \/ \E m \in 1..MaxSize : on_message_store(m)
  \/ slow_crawl_skip
  \/ \E perm \in BOOLEAN : crawl_one_begin(perm)
  \/ \E result \in FetchResults : crawl_one_history(result)
  \/ crawl_one_message
  \/ crawl_one_insert
  \/ crawl_one_progress
  \/ crawl_one_commit
  \/ slow_crawl_pause
  \/ slow_crawl_sweep_end
  \/ slow_crawl_error

SpecRunning == Init /\ [][NextRunning]_vars

\* The same tasks in a guild that has a channel of IGNORED_CHANNELS.
InitIgnored ==
  /\ targets \in IgnoredGuilds
  /\ msgs \in Histories(targets)
  /\ arrivals = 0
  /\ posts = {}
  /\ progress = NoRows
  /\ chans = NoRows
  /\ authors = [a \in SEED_BLUE_IDS |-> NULL]
  /\ disk = Committed({}, NoRows, authors)
  /\ inaccessible_channels = {}
  /\ finished_channels = {}
  /\ blue_ids = SEED_BLUE_IDS
  /\ cr = IdleCall
  /\ sweep = FirstSweep
  /\ live = NoRows
  /\ sent = {}
  /\ rp = IdleReplay
  /\ ws = IdleSend
  /\ em = [t \in Tasks |-> IdleMirror]
  /\ mirror_cache = NoRows
  /\ dst = {}
  /\ aa = IdleAuthors
  /\ wh_cache = NoRows
  /\ hooks = NoHooks
  /\ gw = IdleWebhooks
  /\ xr = IdleRetry
  /\ gm_names = on_ready_gm_names(NoRows)
  /\ gn = IdleNames

NextIgnored ==
  \/ \E ch \in {"c1", "x1", "t2"}, a \in Authors, old \in BOOLEAN, seen \in BOOLEAN :
       RemotePost(ch, a, old, seen)
  \/ \E m \in 1..MaxSize, result \in {"sent", "failed", "raised"} : on_message_repost(m, result)
  \/ \E m \in 1..MaxSize : on_message_store(m)
  \/ slow_crawl_skip
  \/ \E perm \in BOOLEAN : crawl_one_begin(perm)
  \/ \E result \in FetchResults : crawl_one_history(result)
  \/ crawl_one_message
  \/ crawl_one_insert
  \/ crawl_one_progress
  \/ crawl_one_commit
  \/ slow_crawl_pause
  \/ slow_crawl_sweep_end
  \/ slow_crawl_error
  \/ Restart

SpecIgnored == InitIgnored /\ [][NextIgnored]_vars

\* ----------------------------------------------------- safe_webhook_send
\* max_retries=3, the default every caller leaves in place.
MAX_RETRIES == 3
\* getattr(e, 'retry_after', 5)
DEFAULT_RETRY_AFTER == 5
\* The longest wait a rate-limit response asks for, in seconds.
MaxRetryAfter == 6

RECURSIVE Pow2(_)
Pow2(n) == IF n = 0 THEN 1 ELSE 2 * Pow2(n - 1)

\* The store and the guild with nothing going on, for the components that do not
\* touch them.
Quiet ==
  /\ targets = << [ch |-> "c1", parent |-> "none"], [ch |-> "t1", parent |-> "c1"] >>
  /\ msgs = << >>
  /\ arrivals = 0
  /\ posts = {}
  /\ progress = NoRows
  /\ chans = NoRows
  /\ authors = [a \in SEED_BLUE_IDS |-> NULL]
  /\ disk = Committed({}, NoRows, authors)
  /\ inaccessible_channels = {}
  /\ finished_channels = {}
  /\ blue_ids = SEED_BLUE_IDS
  /\ cr = IdleCall
  /\ sweep = FirstSweep
  /\ live = NoRows
  /\ sent = {}

InitSend ==
  /\ Quiet
  /\ rp = IdleReplay
  /\ ws = IdleSend
  /\ em = [t \in Tasks |-> IdleMirror]
  /\ mirror_cache = NoRows
  /\ dst = {}
  /\ aa = IdleAuthors
  /\ wh_cache = NoRows
  /\ hooks = NoHooks
  /\ gw = IdleWebhooks
  /\ xr = IdleRetry
  /\ gm_names = on_ready_gm_names(NoRows)
  /\ gn = IdleNames

\* A caller enters safe_webhook_send: attempt = 0, the first webhook.send is issued.
safe_webhook_send_call ==
  /\ ws.pc \in {"idle", "returned", "raised"}
  /\ ws' = [pc |-> "send", attempt |-> 0, log |-> << >>]
  /\ UNCHANGED << targets, msgs, posts, disk, sent, crawlVars, rp, mirrorVars, authorVars, webhookVars, retryVars, nameVars >>

\* What the sleep of the except clause lasts: retry_after for a 429 (the
\* exception's attribute when it has one, the default otherwise), 2 ** attempt for
\* another status before the last attempt.
backoff(status, attempt, has_attr, r) ==
  IF status = 429 THEN (IF has_attr THEN r ELSE DEFAULT_RETRY_AFTER)
  ELSE Pow2(attempt)

\* webhook.send returns or raises: status 200 is a delivery, 429 and 500 are
\* discord.HTTPException with that status (r the wait the 429 asks for, has_attr
\* whether the exception carries it as retry_after), 0 any other exception.
safe_webhook_send_attempt(status, has_attr, r) ==
  /\ ws.pc = "send"
  /\ LET entry == [status |-> status, r |-> IF status = 429 THEN r ELSE 0, slept |-> 0]
         log == Append(ws.log, entry)
     IN IF status = 200 THEN ws' = [ws EXCEPT !.pc = "returned", !.log = log]
        ELSE IF status = 0 THEN ws' = [ws EXCEPT !.pc = "raised", !.log = log]
        ELSE IF status # 429 /\ ws.attempt = MAX_RETRIES - 1
        THEN ws' = [ws EXCEPT !.pc = "raised", !.log = log]
        ELSE ws' = [ws EXCEPT !.pc = "sleep",
                              !.log = Append(ws.log, [entry EXCEPT !.slept =
                                         backoff(status, ws.attempt, has_attr, r)])]
  /\ UNCHANGED << targets, msgs, posts, disk, sent, crawlVars, rp, mirrorVars, authorVars, webhookVars, retryVars, nameVars >>

\* The sleep ends and the for loop goes on: the next attempt, or, after the last
\* one, the end of the function body.
safe_webhook_send_wake ==
  /\ ws.pc = "sleep"
  /\ ws' = IF ws.attempt + 1 < MAX_RETRIES
            THEN [ws EXCEPT !.pc = "send", !.attempt = @ + 1]
            ELSE [ws EXCEPT !.pc = "returned", !.attempt = @ + 1]
  /\ UNCHANGED << targets, msgs, posts, disk, sent, crawlVars, rp, mirrorVars, authorVars, webhookVars, retryVars, nameVars >>

NextSend ==
  \/ safe_webhook_send_call
  \/ \E status \in {200, 429, 500, 0}, has_attr \in BOOLEAN, r \in 1..MaxRetryAfter :
       safe_webhook_send_attempt(status, has_attr, r)
  \/ safe_webhook_send_wake

SpecSend == InitSend /\ [][NextSend]_vars

\* ---------------------------------------------------------- ensure_mirror
\* parent_src.category.name (or "No-Category"), and the name of the channel the
\* mirror is made for: the thread's parent for a thread.
CategoryName(ch) == "cat"
ParentSrc(ch) == IF IsThread(ch) THEN ParentId(ch) ELSE ch

\* discord.utils.get(collection, name=...): the first object of the destination
\* guild with the kind, the name and the parent, None (0) when there is none.
\* The collections are the client's view of the guild: mirror_parent.threads holds
\* the active threads only, an archived thread is not in it.
utils_get(kind, name, parent) ==
  LET found == {o \in dst : /\ o.kind = kind /\ o.name = name /\ o.parent = parent
                            /\ ~o.archived}
  IN IF found = {} THEN 0 ELSE Min({o.id : o \in found})

\* The object a create call adds to the destination guild.
Created(kind, name, parent) ==
  [id |-> Cardinality(dst) + 1, kind |-> kind, name |-> name, parent |-> parent,
   archived |-> FALSE]

\* ensure_mirror from one await to the next. Each operator takes the call where
\* the code has got to and runs it to its next create request or to its return.
find_thread(e) ==
  IF ~IsThread(e.src) THEN [e EXCEPT !.pc = "returned", !.result = e.mirror_parent]
  ELSE LET mirror_thread == utils_get("thread", ChannelName(e.src), e.mirror_parent)
       IN IF mirror_thread # 0
          THEN [e EXCEPT !.pc = "returned", !.result = mirror_thread]
          ELSE [e EXCEPT !.pc = "create_thread"]
find_channel(e) ==
  LET mirror_parent == utils_get("channel", ChannelName(ParentSrc(e.src)), e.category)
  IN IF mirror_parent # 0
     THEN find_thread([e EXCEPT !.mirror_parent = mirror_parent])
     ELSE [e EXCEPT !.pc = "create_channel"]
find_category(e) ==
  LET category == utils_get("category", CategoryName(e.src), 0)
  IN IF category # 0
     THEN find_channel([e EXCEPT !.category = category])
     ELSE [e EXCEPT !.pc = "create_category"]

\* mirror_cache[key] = mirror, on the two returns that follow the lookups.
cache_result(e) ==
  IF e.pc = "returned" THEN Put(mirror_cache, e.src, e.result) ELSE mirror_cache

InitMirror ==
  /\ Quiet
  /\ rp = IdleReplay
  /\ ws = IdleSend
  /\ em = [t \in Tasks |-> IdleMirror]
  /\ mirror_cache = NoRows
  /\ dst = {}
  /\ aa = IdleAuthors
  /\ wh_cache = NoRows
  /\ hooks = NoHooks
  /\ gw = IdleWebhooks
  /\ xr = IdleRetry
  /\ gm_names = on_ready_gm_names(NoRows)
  /\ gn = IdleNames

\* A task (an on_message handler, replay_all) calls ensure_mirror for a source
\* channel: the cached mirror, or the lookups up to the first await.
ensure_mirror_call(t, src) ==
  /\ em[t].pc \in {"idle", "returned", "raised"}
  /\ src \in ChannelsOf(targets)
  /\ LET e == IF src \in DOMAIN mirror_cache
              THEN [IdleMirror EXCEPT !.pc = "returned", !.src = src,
                                      !.result = mirror_cache[src]]
              ELSE find_category([IdleMirror EXCEPT !.src = src])
     IN /\ em' = [em EXCEPT ![t] = e]
        /\ mirror_cache' = IF src \in DOMAIN mirror_cache THEN mirror_cache
                           ELSE cache_result(e)
  /\ UNCHANGED << targets, msgs, posts, disk, sent, crawlVars, rp, sendVars, authorVars, webhookVars, retryVars, nameVars, dst >>

\* A create request is answered: the object is in the destination guild and
\* the task sleeps CREATE_COOLDOWN (after make_read_only for a channel), or the
\* request fails with discord.HTTPException, which ensure_mirror re-raises.
ensure_mirror_create(t, ok) ==
  /\ em[t].pc \in {"create_category", "create_channel", "create_thread"}
  /\ LET e == em[t]
         new == CASE e.pc = "create_category" -> Created("category", CategoryName(e.src), 0)
                  [] e.pc = "create_channel" ->
                       Created("channel", ChannelName(ParentSrc(e.src)), e.category)
                  [] e.pc = "create_thread" ->
                       Created("thread", ChannelName(e.src), e.mirror_parent)
     IN IF ok
        THEN /\ dst' = dst \cup {new}
             /\ em' = [em EXCEPT ![t] =
                         CASE e.pc = "create_category" ->
                                [e EXCEPT !.pc = "category_cooldown", !.category = new.id]
                           [] e.pc = "create_channel" ->
                                [e EXCEPT !.pc = "channel_cooldown", !.mirror_parent = new.id]
                           [] e.pc = "create_thread" ->
                                [e EXCEPT !.pc = "thread_cooldown", !.result = new.id]]
        ELSE /\ em' = [em EXCEPT ![t] = [e EXCEPT !.pc = "raised"]]
             /\ UNCHANGED dst
  /\ UNCHANGED << targets, msgs, posts, disk, sent, crawlVars, rp, sendVars, authorVars, webhookVars, retryVars, nameVars, mirror_cache >>

\* The cooldown ends and the call goes on to its next lookup or to its return;
\* for a channel, make_read_only may have raised a discord.HTTPException other
\* than Forbidden in the meantime (ok is false), and ensure_mirror re-raises it.
ensure_mirror_resume(t, ok) ==
  /\ em[t].pc \in {"category_cooldown", "channel_cooldown", "thread_cooldown"}
  /\ ok \/ em[t].pc = "channel_cooldown"
  /\ LET e == CASE ~ok -> [em[t] EXCEPT !.pc = "raised"]
                 [] ok /\ em[t].pc = "category_cooldown" -> find_channel(em[t])
                 [] ok /\ em[t].pc = "channel_cooldown" -> find_thread(em[t])
                 [] ok /\ em[t].pc = "thread_cooldown" -> [em[t] EXCEPT !.pc = "returned"]
     IN /\ em' = [em EXCEPT ![t] = e]
        /\ mirror_cache' = cache_result(e)
  /\ UNCHANGED << targets, msgs, posts, disk, sent, crawlVars, rp, sendVars, authorVars, webhookVars, retryVars, nameVars, dst >>

NextMirror ==
  \/ \E t \in Tasks, src \in {"c1", "t1"} : ensure_mirror_call(t, src)
  \/ \E t \in Tasks, ok \in BOOLEAN : ensure_mirror_create(t, ok)
  \/ \E t \in Tasks, ok \in BOOLEAN : ensure_mirror_resume(t, ok)

SpecMirror == InitMirror /\ [][NextMirror]_vars

\* -------------------------------------------------------- cleanup_caches
\* The sizes above which cleanup_caches trims mirror_cache (1000) and wh_cache
\* (100), scaled down.
MIRROR_CACHE_LIMIT == 1
WH_CACHE_LIMIT == 1
\* The most objects the destination guild holds when a thread of it is archived.
MaxDst == 4

\* What a cache may be after "del cache[key]" for the first len(cache) // 2 keys
\* when it holds more than limit entries. The keys go in insertion order, which
\* the model does not keep: any len(cache) // 2 of them may be the ones.
trimmed(cache, limit) ==
  IF Cardinality(DOMAIN cache) > limit
  THEN {[k \in (DOMAIN cache) \ gone |-> cache[k]] :
          gone \in {K \in SUBSET DOMAIN cache :
                      Cardinality(K) = Cardinality(DOMAIN cache) \div 2}}
  ELSE {cache}

\* slow_crawl calls cleanup_caches (every 50 sweeps).
cleanup_caches ==
  /\ mirror_cache' \in trimmed(mirror_cache, MIRROR_CACHE_LIMIT)
  /\ wh_cache' \in trimmed(wh_cache, WH_CACHE_LIMIT)
  /\ UNCHANGED << targets, msgs, posts, disk, sent, crawlVars, rp, sendVars, authorVars,
                  retryVars, nameVars, em, dst, hooks, gw >>

\* A thread of the destination guild is archived (it has had no message for its
\* auto_archive_duration).
thread_archived(id) ==
  /\ Cardinality(dst) < MaxDst
  /\ \E o \in dst :
       /\ o.id = id /\ o.kind = "thread" /\ ~o.archived
       /\ dst' = (dst \ {o}) \cup {[o EXCEPT !.archived = TRUE]}
  /\ UNCHANGED << targets, msgs, posts, disk, sent, crawlVars, rp, sendVars, authorVars,
                  webhookVars, retryVars, nameVars, em, mirror_cache >>

\* The provisioner over a long run: its calls, the trimming of the caches, the
\* destination's threads going inactive, and restarts.
NextEvict ==
  \/ \E t \in Tasks, src \in {"c1", "t1"} : ensure_mirror_call(t, src)
  \/ \E t \in Tasks, ok \in BOOLEAN : ensure_mirror_create(t, ok)
  \/ \E t \in Tasks, ok \in BOOLEAN : ensure_mirror_resume(t, ok)
  \/ cleanup_caches
  \/ \E id \in 1..MaxDst : thread_archived(id)
  \/ Restart

SpecEvict == InitMirror /\ [][NextEvict]_vars

\* ------------------------------------------------------------ replay_all
\* UPDATE posts SET replayed = 1 WHERE id = ?
mark_replayed(tbl, id) == {IF r.id = id THEN [r EXCEPT !.replayed = 1] ELSE r : r \in tbl}
\* The three places of replay_all that run it: the channel is gone, the row is
\* about to be sent, an exception was caught.
NotFoundLeavesRow(tbl, id) == tbl
not_found_mark(tbl, id) == mark_replayed(tbl, id)
SendsBeforeMark(tbl, id) == tbl
before_send_mark(tbl, id) == mark_replayed(tbl, id)
ExceptLeavesRow(tbl, id) == tbl
except_mark(tbl, id) == mark_replayed(tbl, id)

\* SELECT id ... WHERE replayed = 0 ORDER BY ts ASC (timestamps grow with ids).
SelectsNewestFirst(S) == NewestFirst(S, Cardinality(S))
RECURSIVE OldestFirst(_)
OldestFirst(S) == IF S = {} THEN << >> ELSE << Min(S) >> \o OldestFirst(S \ {Min(S)})
SelectsEveryRow(tbl) == PostIds(tbl)
Unreplayed(tbl) == {r.id : r \in {p \in tbl : p.replayed = 0}}

\* The most messages the store holds a row of when replay_all starts (a thread
\* counting for two, as in MaxSize).
MaxBacklog == 4
\* The messages behind those rows: by tracked authors, within the cutoff.
Backlogs(g) ==
  UNION {[1..n -> [chan : ChannelsOf(g), author : TRACKED_ROLE_HOLDERS, old : {FALSE}]] :
           n \in 0..(MaxBacklog - 2 * (Len(g) - 1))}

\* The store replay_all finds: rows of tracked authors, stored by the crawl
\* (replayed 0) or by on_message (replayed 1), after on_ready's UPDATE.
InitReplay ==
  /\ targets \in Guilds
  /\ msgs \in Backlogs(targets)
  /\ \E stored \in SUBSET {m \in 1..Len(msgs) : msgs[m].author \in TRACKED_ROLE_HOLDERS} :
       \E by_live \in SUBSET stored :
         posts = on_ready_posts({PostRow(m, IF m \in by_live THEN 1 ELSE 0) : m \in stored})
  /\ arrivals = 0
  /\ progress = NoRows
  /\ chans = NoRows
  /\ authors = [a \in SEED_BLUE_IDS |-> NULL]
  /\ disk = Committed(posts, progress, authors)
  /\ inaccessible_channels = {}
  /\ finished_channels = {}
  /\ blue_ids = SEED_BLUE_IDS
  /\ cr = IdleCall
  /\ sweep = FirstSweep
  /\ live = NoRows
  /\ sent = {}
  /\ rp = IdleReplay
  /\ ws = IdleSend
  /\ em = [t \in Tasks |-> IdleMirror]
  /\ mirror_cache = NoRows
  /\ dst = {}
  /\ aa = IdleAuthors
  /\ wh_cache = NoRows
  /\ hooks = NoHooks
  /\ gw = IdleWebhooks
  /\ xr = IdleRetry
  /\ gm_names = on_ready_gm_names(NoRows)
  /\ gn = IdleNames

\* replay_all starts: it returns when COUNT(*) of the unreplayed rows is 0, and
\* opens the cursor over them otherwise.
replay_all_begin ==
  /\ rp.pc = "idle"
  /\ rp' = IF Unreplayed(posts) = {}
           THEN [rp EXCEPT !.pc = "returned"]
           ELSE [rp EXCEPT !.pc = "row", !.rows = OldestFirst(Unreplayed(posts)), !.i = 1,
                           !.snapshot = posts]
  /\ UNCHANGED << targets, msgs, posts, disk, sent, crawlVars, sendVars, mirrorVars, authorVars, webhookVars, retryVars, nameVars >>

\* The cursor yields a row, and the loop body runs up to its UPDATE: the channel
\* is resolved and the name, the mirror and the webhook are there (ready), or
\* fetch_channel raises NotFound (the row is marked, with no commit, and the loop
\* continues), or one of the calls raises anything else.
replay_all_row(result) ==
  /\ rp.pc = "row" /\ rp.i <= Len(rp.rows)
  /\ LET id == rp.rows[rp.i]
     IN CASE result = "ready" ->
               /\ rp' = [rp EXCEPT !.pc = "mark", !.read = @ \cup {id}]
               /\ UNCHANGED posts
          [] result = "not_found" ->
               /\ posts' = not_found_mark(posts, id)
               /\ rp' = [rp EXCEPT !.i = @ + 1, !.read = @ \cup {id},
                                   !.handled = Put(@, id, "not_found")]
          [] result = "raised" ->
               /\ rp' = [rp EXCEPT !.pc = "except", !.read = @ \cup {id},
                                   !.handled = Put(@, id, "raised")]
               /\ UNCHANGED posts
  /\ UNCHANGED << targets, msgs, disk, sent, crawlVars, sendVars, mirrorVars, authorVars, webhookVars, retryVars, nameVars >>

\* UPDATE posts SET replayed = 1 and commit, before the send; a failure of the
\* store goes to the except clause.
replay_all_mark(ok) ==
  /\ rp.pc = "mark"
  /\ IF ok
     THEN /\ posts' = before_send_mark(posts, rp.rows[rp.i])
          /\ disk' = Committed(posts', progress, authors)
          /\ rp' = [rp EXCEPT !.pc = "send"]
     ELSE /\ rp' = [rp EXCEPT !.pc = "except", !.handled = Put(@, rp.rows[rp.i], "raised")]
          /\ UNCHANGED << posts, disk >>
  /\ UNCHANGED << targets, msgs, sent, crawlVars, sendVars, mirrorVars, authorVars, webhookVars, retryVars, nameVars >>

\* safe_webhook_send: the message is delivered, or the call returns with nothing
\* delivered, or it raises.
replay_all_send(result) ==
  /\ rp.pc = "send"
  /\ sent' = IF result = "sent" THEN sent \cup {[id |-> rp.rows[rp.i], via |-> "replay"]}
             ELSE sent
  /\ rp' = [rp EXCEPT !.pc = IF result = "raised" THEN "except" ELSE "pause",
                      !.handled = Put(@, rp.rows[rp.i], result)]
  /\ UNCHANGED << targets, msgs, posts, disk, crawlVars, sendVars, mirrorVars, authorVars, webhookVars, retryVars, nameVars >>

\* await asyncio.sleep(API_PAUSE), then the next row.
replay_all_pause ==
  /\ rp.pc = "pause"
  /\ rp' = [rp EXCEPT !.pc = "row", !.i = @ + 1]
  /\ UNCHANGED << targets, msgs, posts, disk, sent, crawlVars, sendVars, mirrorVars, authorVars, webhookVars, retryVars, nameVars >>

\* except Exception: UPDATE posts SET replayed = 1 and commit, then the next row;
\* a failure of the store here leaves replay_all as an exception.
replay_all_except(ok) ==
  /\ rp.pc = "except"
  /\ IF ok
     THEN /\ posts' = except_mark(posts, rp.rows[rp.i])
          /\ disk' = Committed(posts', progress, authors)
          /\ rp' = [rp EXCEPT !.pc = "row", !.i = @ + 1]
     ELSE /\ rp' = [rp EXCEPT !.pc = "raised"]
          /\ UNCHANGED << posts, disk >>
  /\ UNCHANGED << targets, msgs, sent, crawlVars, sendVars, mirrorVars, authorVars, webhookVars, retryVars, nameVars >>

\* The cursor is exhausted: "Replay complete", replay_all returns.
replay_all_end ==
  /\ rp.pc = "row" /\ rp.i > Len(rp.rows)
  /\ rp' = [rp EXCEPT !.pc = "returned"]
  /\ UNCHANGED << targets, msgs, posts, disk, sent, crawlVars, sendVars, mirrorVars, authorVars, webhookVars, retryVars, nameVars >>

NextReplay ==
  \/ replay_all_begin
  \/ \E result \in {"ready", "not_found", "raised"} : replay_all_row(result)
  \/ \E ok \in BOOLEAN : replay_all_mark(ok)
  \/ \E result \in {"sent", "gave_up", "raised"} : replay_all_send(result)
  \/ replay_all_pause
  \/ \E ok \in BOOLEAN : replay_all_except(ok)
  \/ replay_all_end
  \* on_message runs while the backlog is replayed, and the process may be stopped
  \/ \E ch \in {"c1", "t1"}, a \in Authors, old \in BOOLEAN, seen \in BOOLEAN :
       RemotePost(ch, a, old, seen)
  \/ \E m \in 1..MaxBacklog, result \in {"sent", "failed", "raised"} :
       on_message_repost(m, result)
  \/ \E m \in 1..MaxBacklog : on_message_store(m)
  \/ Restart

SpecReplay == InitReplay /\ [][NextReplay]_vars

\* ------------------------------------------------------ replay_then_crawl
\* REPLAY_MODE: on_ready starts the task replay_then_crawl, which awaits
\* replay_all and, when it has returned, slow_crawl; on_message runs all along.
\* Without REPLAY_MODE on_ready starts slow_crawl itself.
CrawlerStartsAtOnce == TRUE
replay_then_crawl == rp.pc = "returned"

NextSystem ==
  \/ NextReplay
  \/ replay_then_crawl /\ slow_crawl_skip
  \/ replay_then_crawl /\ \E perm \in BOOLEAN : crawl_one_begin(perm)
  \/ replay_then_crawl /\ \E result \in FetchResults : crawl_one_history(result)
  \/ replay_then_crawl /\ crawl_one_message
  \/ replay_then_crawl /\ crawl_one_insert
  \/ replay_then_crawl /\ crawl_one_progress
  \/ replay_then_crawl /\ crawl_one_commit
  \/ replay_then_crawl /\ slow_crawl_pause
  \/ replay_then_crawl /\ slow_crawl_sweep_end
  \/ replay_then_crawl /\ slow_crawl_error

SpecSystem == InitReplay /\ [][NextSystem]_vars

\* ---------------------------------------------------------- db_add_author
\* What u.display_name or u.name may be when a statement of db_add_author runs.
Names == {"n1", "n2", "n3"}

InitAuthors ==
  /\ Quiet
  /\ rp = IdleReplay
  /\ ws = IdleSend
  /\ em = [t \in Tasks |-> IdleMirror]
  /\ mirror_cache = NoRows
  /\ dst = {}
  /\ aa = IdleAuthors
  /\ wh_cache = NoRows
  /\ hooks = NoHooks
  /\ gw = IdleWebhooks
  /\ xr = IdleRetry
  /\ gm_names = on_ready_gm_names(NoRows)
  /\ gn = IdleNames

\* crawl_one or on_message calls db_add_author(u): the INSERT OR IGNORE runs.
db_add_author_insert(t, u, name) ==
  /\ aa[t].pc = "idle"
  /\ authors' = insert_or_ignore_author(authors, u, name)
  /\ aa' = [aa EXCEPT ![t] = [pc |-> "update", u |-> u, name |-> name]]
  /\ UNCHANGED << targets, msgs, arrivals, posts, progress, chans, disk,
                  inaccessible_channels, finished_channels, blue_ids, cr, sweep, live,
                  sent, rp, sendVars, mirrorVars, webhookVars, retryVars, nameVars >>

\* The UPDATE ... WHERE author_name IS NULL runs, with the name the user has by
\* then, and db_add_author returns.
db_add_author_update(t, name) ==
  /\ aa[t].pc = "update"
  /\ authors' = update_null_author(authors, aa[t].u, name)
  /\ aa' = [aa EXCEPT ![t].pc = "commit", ![t].name = name]
  /\ UNCHANGED << targets, msgs, arrivals, posts, progress, chans, disk,
                  inaccessible_channels, finished_channels, blue_ids, cr, sweep, live,
                  sent, rp, sendVars, mirrorVars, webhookVars, retryVars, nameVars >>

\* The caller's db.commit() after its insert into posts: the connection is
\* shared, so it commits what either task wrote.
db_add_author_commit(t) ==
  /\ aa[t].pc = "commit"
  /\ disk' = Committed(posts, progress, authors)
  /\ aa' = [aa EXCEPT ![t] = IdleAuthors[t]]
  /\ UNCHANGED << targets, msgs, arrivals, posts, progress, chans, authors,
                  inaccessible_channels, finished_channels, blue_ids, cr, sweep, live,
                  sent, rp, sendVars, mirrorVars, webhookVars, retryVars, nameVars >>

NextAuthors ==
  \/ \E t \in AuthorTasks, u \in Authors, name \in Names : db_add_author_insert(t, u, name)
  \/ \E t \in AuthorTasks, name \in Names : db_add_author_update(t, name)
  \/ \E t \in AuthorTasks : db_add_author_commit(t)
  \/ Restart

SpecAuthors == InitAuthors /\ [][NextAuthors]_vars

\* ------------------------------------------------------------ get_webhook
\* The most webhooks the model lets a destination channel have.
MaxHooks == 3

InitWebhook ==
  /\ Quiet
  /\ rp = IdleReplay
  /\ ws = IdleSend
  /\ em = [t \in Tasks |-> IdleMirror]
  /\ mirror_cache = NoRows
  /\ dst = {}
  /\ aa = IdleAuthors
  /\ wh_cache = NoRows
  /\ hooks = NoHooks
  /\ gw = IdleWebhooks
  /\ xr = IdleRetry
  /\ gm_names = on_ready_gm_names(NoRows)
  /\ gn = IdleNames

\* for h in hooks: if h.name == "BlueTracker": the first such webhook of the
\* channel, None (0) when it has none.
named_hook(n) == IF n > 0 THEN 1 ELSE 0

\* A task calls get_webhook(channel): the cached webhook, or the request
\* channel.webhooks() is sent.
get_webhook_call(t, ch) ==
  /\ gw[t].pc \in {"idle", "returned", "raised"}
  /\ gw' = [gw EXCEPT ![t] = IF ch \in DOMAIN wh_cache
                               THEN [pc |-> "returned", ch |-> ch, wh |-> wh_cache[ch]]
                               ELSE [pc |-> "webhooks", ch |-> ch, wh |-> 0]]
  /\ UNCHANGED << targets, msgs, posts, disk, sent, crawlVars, rp, sendVars, mirrorVars,
                  authorVars, retryVars, nameVars, wh_cache, hooks >>

\* channel.webhooks() is answered: a webhook named BlueTracker is cached and
\* returned, or there is none and create_webhook is sent; a discord.HTTPException
\* is re-raised.
get_webhook_listed(t, ok) ==
  /\ gw[t].pc = "webhooks"
  /\ LET ch == gw[t].ch
         h == named_hook(hooks[ch])
     IN IF ~ok
        THEN /\ gw' = [gw EXCEPT ![t].pc = "raised"]
             /\ UNCHANGED wh_cache
        ELSE IF h # 0
        THEN /\ wh_cache' = Put(wh_cache, ch, h)
             /\ gw' = [gw EXCEPT ![t].pc = "returned", ![t].wh = h]
        ELSE /\ gw' = [gw EXCEPT ![t].pc = "create"]
             /\ UNCHANGED wh_cache
  /\ UNCHANGED << targets, msgs, posts, disk, sent, crawlVars, rp, sendVars, mirrorVars,
                  authorVars, retryVars, nameVars, hooks >>

\* channel.create_webhook(name="BlueTracker") is answered: the new webhook is
\* cached and returned; a discord.HTTPException is re-raised.
get_webhook_created(t, ok) ==
  /\ gw[t].pc = "create"
  /\ hooks[gw[t].ch] < MaxHooks
  /\ LET ch == gw[t].ch
     IN IF ok
        THEN /\ hooks' = [hooks EXCEPT ![ch] = @ + 1]
             /\ wh_cache' = Put(wh_cache, ch, hooks[ch] + 1)
             /\ gw' = [gw EXCEPT ![t].pc = "returned", ![t].wh = hooks[ch] + 1]
        ELSE /\ gw' = [gw EXCEPT ![t].pc = "raised"]
             /\ UNCHANGED << wh_cache, hooks >>
  /\ UNCHANGED << targets, msgs, posts, disk, sent, crawlVars, rp, sendVars, mirrorVars,
                  authorVars, retryVars, nameVars >>

NextWebhook ==
  \/ \E t \in Tasks, ch \in DstChannels : get_webhook_call(t, ch)
  \/ \E t \in Tasks, ok \in BOOLEAN : get_webhook_listed(t, ok)
  \/ \E t \in Tasks, ok \in BOOLEAN : get_webhook_created(t, ok)
  \/ Restart

SpecWebhook == InitWebhook /\ [][NextWebhook]_vars

\* ------------------------------------------------------ execute_with_retry
\* The largest max_retries a call is made with (the default, which every caller
\* of the repository leaves in place, is 3).
MaxDbRetries == 4
\* The statements the crawler runs through execute_with_retry.
Queries == {"save_channel", "update_last_seen_id", "insert_post"}
\* What db.execute(query, params) does: it returns a cursor, raises
\* aiosqlite.OperationalError with the text "database is locked", raises another
\* OperationalError, or raises another exception.
ExecuteOutcomes == {"cursor", "locked", "operational_error", "error"}

InitRetry ==
  /\ Quiet
  /\ rp = IdleReplay
  /\ ws = IdleSend
  /\ em = [t \in Tasks |-> IdleMirror]
  /\ mirror_cache = NoRows
  /\ dst = {}
  /\ aa = IdleAuthors
  /\ wh_cache = NoRows
  /\ hooks = NoHooks
  /\ gw = IdleWebhooks
  /\ xr = IdleRetry
  /\ gm_names = on_ready_gm_names(NoRows)
  /\ gn = IdleNames

\* "database is locked" in str(e).lower() and attempt < max_retries - 1, in the
\* clause that catches aiosqlite.OperationalError.
RetriesOperationalErrors(outcome, attempt, max_retries) ==
  outcome \in {"locked", "operational_error"} /\ attempt < max_retries - 1
retries(outcome, attempt, max_retries) ==
  outcome = "locked" /\ attempt < max_retries - 1
\* asyncio.sleep(0.1 * (2 ** attempt)), in tenths of a second.
retry_sleep(attempt) == Pow2(attempt)

\* A caller enters execute_with_retry: attempt = 0, db.execute is awaited.
execute_with_retry_call(query, max_retries) ==
  /\ xr.pc \in {"idle", "returned", "raised"}
  /\ xr' = [IdleRetry EXCEPT !.pc = "execute", !.query = query,
                             !.max_retries = max_retries]
  /\ UNCHANGED << targets, msgs, posts, disk, sent, crawlVars, rp, sendVars, mirrorVars,
                  authorVars, webhookVars, nameVars >>

\* db.execute returns or raises: the cursor is returned, a lock error before the
\* last attempt is slept on, anything else is raised.
execute_with_retry_attempt(outcome) ==
  /\ xr.pc = "execute"
  /\ LET entry == [outcome |-> outcome, slept |-> 0]
     IN IF outcome = "cursor"
        THEN xr' = [xr EXCEPT !.pc = "returned", !.log = Append(@, entry),
                              !.cursor = xr.attempt + 1]
        ELSE IF retries(outcome, xr.attempt, xr.max_retries)
        THEN xr' = [xr EXCEPT !.pc = "sleep",
                              !.log = Append(@, [entry EXCEPT !.slept = retry_sleep(xr.attempt)])]
        ELSE xr' = [xr EXCEPT !.pc = "raised", !.log = Append(@, entry)]
  /\ UNCHANGED << targets, msgs, posts, disk, sent, crawlVars, rp, sendVars, mirrorVars,
                  authorVars, webhookVars, nameVars >>

\* The sleep ends: continue, the next turn of "for attempt in range(max_retries)".
execute_with_retry_wake ==
  /\ xr.pc = "sleep"
  /\ xr' = [xr EXCEPT !.pc = "execute", !.attempt = @ + 1]
  /\ UNCHANGED << targets, msgs, posts, disk, sent, crawlVars, rp, sendVars, mirrorVars,
                  authorVars, webhookVars, nameVars >>

NextRetry ==
  \/ \E query \in Queries, max_retries \in 1..MaxDbRetries :
       execute_with_retry_call(query, max_retries)
  \/ \E outcome \in ExecuteOutcomes : execute_with_retry_attempt(outcome)
  \/ execute_with_retry_wake

SpecRetry == InitRetry /\ [][NextRetry]_vars

\* ----------------------------------------------------- get_gm_display_name
\* An author id as the callers hold it: msg.author.id is an int (repost_live),
\* and the author_id replay_all reads from posts, a TEXT column, is a str.
PyInt(a) == [type |-> "int", id |-> a]
PyStr(a) == [type |-> "str", id |-> a]
\* WHERE author_id = ? on a TEXT column: the parameter is compared as text, so a
\* row is found with the int and with the str alike.
select_by_author_id(tbl, author_id) ==
  IF author_id.id \in DOMAIN tbl THEN tbl[author_id.id] ELSE NULL
\* author_id in GM_NAME_OVERRIDES: the keys of the dict are ints, and a str is
\* equal to none of them.
in_overrides(author_id) ==
  author_id.type = "int" /\ author_id.id \in DOMAIN GM_NAME_OVERRIDES
\* f"ID {author_id}"
RawId(a) == << "ID", a >>
\* The names update_gm_name may be given (gm_name is TEXT NOT NULL; the empty
\* string is accepted).
GmNames == {"", "gm_name"}

\* row and row[0], then the dict, then the name the caller passed.
get_gm_display_name(tbl, author_id, fallback_name) ==
  LET row == select_by_author_id(tbl, author_id)
  IN IF row # NULL /\ row # "" THEN row
     ELSE IF in_overrides(author_id) THEN GM_NAME_OVERRIDES[author_id.id]
     ELSE fallback_name

\* The authors tables db_add_author leaves: the seed ids are there from on_ready,
\* without a name until they are seen; any other author has the name it was
\* first seen with.
AuthorTables ==
  {t \in UNION {[D -> Names \cup {NULL}] : D \in SUBSET Authors} :
     /\ SEED_BLUE_IDS \subseteq DOMAIN t
     /\ \A a \in DOMAIN t : t[a] = NULL => a \in SEED_BLUE_IDS}

InitNames ==
  /\ targets = << [ch |-> "c1", parent |-> "none"], [ch |-> "t1", parent |-> "c1"] >>
  /\ msgs = << >>
  /\ arrivals = 0
  /\ posts = {}
  /\ progress = NoRows
  /\ chans = NoRows
  /\ authors \in AuthorTables
  /\ disk = Committed({}, NoRows, authors)
  /\ inaccessible_channels = {}
  /\ finished_channels = {}
  /\ blue_ids = SEED_BLUE_IDS
  /\ cr = IdleCall
  /\ sweep = FirstSweep
  /\ live = NoRows
  /\ sent = {}
  /\ rp = IdleReplay
  /\ ws = IdleSend
  /\ em = [t \in Tasks |-> IdleMirror]
  /\ mirror_cache = NoRows
  /\ dst = {}
  /\ aa = IdleAuthors
  /\ wh_cache = NoRows
  /\ hooks = NoHooks
  /\ gw = IdleWebhooks
  /\ xr = IdleRetry
  /\ gm_names = on_ready_gm_names(NoRows)
  /\ gn = IdleNames

\* main.update_gm_name: INSERT OR REPLACE INTO gm_names, and commit.
update_gm_name(a, new_name) ==
  /\ gm_names' = Put(gm_names, a, new_name)
  /\ UNCHANGED << targets, msgs, posts, disk, sent, crawlVars, rp, sendVars, mirrorVars,
                  authorVars, webhookVars, retryVars, gn >>

\* repost_live resolves the name of msg.author, with the author's live display
\* name as fallback.
repost_live_name(a, display_name) ==
  /\ gn' = [pc |-> "returned", caller |-> "repost_live", author |-> a,
            row |-> select_by_author_id(gm_names, PyInt(a)), stored |-> "none",
            fallback_name |-> display_name,
            result |-> get_gm_display_name(gm_names, PyInt(a), display_name)]
  /\ UNCHANGED << targets, msgs, posts, disk, sent, crawlVars, rp, sendVars, mirrorVars,
                  authorVars, webhookVars, retryVars, gm_names >>

\* replay_all resolves the name of a row's author_id: SELECT author_name FROM
\* authors, the stored name or "ID <author_id>" as fallback.
replay_all_name(a) ==
  /\ LET author_id == PyStr(a)
         row == select_by_author_id(authors, author_id)
         fallback_name == IF row # NULL THEN row ELSE RawId(a)
     IN gn' = [pc |-> "returned", caller |-> "replay_all", author |-> a,
               row |-> select_by_author_id(gm_names, author_id), stored |-> row,
               fallback_name |-> fallback_name,
               result |-> get_gm_display_name(gm_names, author_id, fallback_name)]
  /\ UNCHANGED << targets, msgs, posts, disk, sent, crawlVars, rp, sendVars, mirrorVars,
                  authorVars, webhookVars, retryVars, gm_names >>

NextNames ==
  \/ \E a \in Authors, new_name \in GmNames : update_gm_name(a, new_name)
  \/ \E a \in Authors, display_name \in Names : repost_live_name(a, display_name)
  \/ \E a \in Authors : replay_all_name(a)
  \/ Restart

SpecNames == InitNames /\ [][NextNames]_vars

\* ============================================================ properties
\* ---- crawl cursor
\* C1 as the specification states it: the stored cursor of a channel never
\* decreases, no step replaces it with a lower id.
C1_CursorNeverDecreases ==
  [][\A c \in DOMAIN progress :
       c \in DOMAIN progress' /\ progress'[c] >= progress[c]]_vars

\* C1, as the code has it: the crawl pages backwards (before=cursor) and stores the
\* lowest id of each page, so a channel's cursor, once stored, is never removed and
\* never increases: not the committed one in any step, and not the connection's
\* view of it in any step of a running process.
C1_CursorNeverIncreases ==
  [][/\ \A c \in DOMAIN disk.progress :
          c \in DOMAIN disk.progress' /\ disk.progress'[c] <= disk.progress[c]
     /\ Restart \/ \A c \in DOMAIN progress :
                     c \in DOMAIN progress' /\ progress'[c] <= progress[c]]_vars

\* A call has committed a cursor below the one the channel had when it started.
C1_Witness ==
  /\ cr.pc = "returned" /\ cr.outcome = "done"
  /\ cr.prog0 # 0
  /\ disk.progress[cr.ch] < cr.prog0

\* ---- one row per message
RowsOf(id) == {r \in posts : r.id = id}

\* C2: posts never holds two rows with one id, and a message whose backfill insert
\* was attempted (it went through, or it was refused because the live handler had
\* stored the message since the existence check) has exactly one row.
C2_OneRowPerId ==
  \A id \in 1..Len(msgs) :
    /\ Cardinality(RowsOf(id)) <= 1
    /\ (id \in cr.inserted
         \/ (cr.pc = "returned" /\ cr.outcome = "integrity_error" /\ cr.page[cr.idx] = id))
       => Cardinality(RowsOf(id)) = 1

\* The backfill's INSERT was refused: the live handler stored the message between
\* the crawl's existence check and its INSERT; the one row is the live one.
C2_Witness ==
  /\ cr.pc = "returned" /\ cr.outcome = "integrity_error"
  /\ RowsOf(cr.page[cr.idx]) = {PostRow(cr.page[cr.idx], 1)}

\* ---- inaccessible channels
\* C4: a history request that fails with Forbidden or HTTP 403 puts the channel in
\* inaccessible_channels; the set loses members only by being emptied; and no
\* history request is made for a channel that is in it.
C4_NoFetchWhileInaccessible ==
  [][/\ (cr.pc = "fetch" /\ cr'.pc = "returned" /\ cr'.outcome \in {"forbidden", "http403"})
          => cr.ch \in inaccessible_channels'
     /\ inaccessible_channels \subseteq inaccessible_channels' \/ inaccessible_channels' = {}
     /\ cr'.pc = "fetch" => cr'.ch \notin inaccessible_channels']_vars

\* A history request was just refused and the channel is cached as inaccessible.
C4_Witness ==
  /\ cr.pc = "returned" /\ cr.outcome \in {"forbidden", "http403"}
  /\ cr.ch \in inaccessible_channels
  /\ chans[cr.ch].accessible = 0

UntrackedPage ==
  /\ cr.pc = "returned" /\ cr.outcome = "done"
  /\ cr.page # << >>
  /\ \A i \in 1..Len(cr.page) : ~msgs[cr.page[i]].old /\ ~should_repost(cr.page[i])

\* C9 as the specification states it: after such a page the cursor is the highest
\* id of the page and no row was inserted.
C9_CursorIsHighestOfPage ==
  UntrackedPage =>
    /\ CallRow(cr.ch) = Max(Range(cr.page))
    /\ cr.inserted = {}

\* C9, as the code has it: the page holds ids below the cursor the call was
\* anchored at, the cursor becomes the lowest id of the page, and no row is inserted.
C9_CursorIsLowestOfPage ==
  UntrackedPage =>
    /\ cr.earliest_seen # 0 => \A i \in 1..Len(cr.page) : cr.page[i] < cr.earliest_seen
    /\ CallRow(cr.ch) = Min(Range(cr.page))
    /\ cr.inserted = {}

\* Such a call, anchored at a cursor, with a page of more than one message.
C9_Witness ==
  /\ UntrackedPage
  /\ cr.earliest_seen # 0
  /\ Len(cr.page) >= 2

\* ---- exhausted channels
\* C10: an empty page puts the channel in finished_channels and leaves the cursor as
\* it is; finished_channels loses members only by being emptied; and no history
\* request is made for a channel that is in it.
C10_EmptyPageFinishes ==
  [][/\ (cr.pc = "fetch" /\ cr'.pc = "returned" /\ cr'.outcome = "empty")
          => cr.ch \in finished_channels' /\ progress' = progress
     /\ finished_channels \subseteq finished_channels' \/ finished_channels' = {}
     /\ cr'.pc = "fetch" => cr'.ch \notin finished_channels']_vars

\* A request anchored at a stored cursor returned an empty page.
C10_Witness ==
  /\ cr.pc = "returned" /\ cr.outcome = "empty"
  /\ cr.prog0 # 0
  /\ cr.ch \in finished_channels
  /\ progress[cr.ch] = cr.prog0

\* ---- the publisher
\* C6 as the specification states it: safe_webhook_send returns normally only when
\* one of its attempts was delivered; when every attempt failed it raises.
C6_ReturnsOnlyAfterDelivery ==
  ws.pc = "returned" => \E i \in 1..Len(ws.log) : ws.log[i].status = 200

\* C7 as the specification states it: an attempt at any index that is answered 429
\* with a wait of r is followed by a sleep of at least r and then by another attempt.
C7_RateLimitedIsResent ==
  \A i \in 1..Len(ws.log) :
    (ws.log[i].status = 429 /\ (i < Len(ws.log) \/ ws.pc \in {"returned", "raised"}))
    => ws.log[i].slept >= ws.log[i].r /\ i < Len(ws.log)

\* ---- the provisioner
\* The destination channels or threads that mirror a source channel.
MirrorsOf(src) ==
  {o \in dst : /\ o.kind = (IF IsThread(src) THEN "thread" ELSE "channel")
               /\ o.name = ChannelName(src)}

\* C3 as the specification states it: whatever the interleaving of the callers,
\* at most one destination channel or thread is created for a source channel, and
\* the callers that have returned for it hold the same destination.
C3_SingleCreation ==
  \A src \in ChannelsOf(targets) :
    /\ Cardinality(MirrorsOf(src)) <= 1
    /\ \A t, u \in Tasks :
         (em[t].pc = "returned" /\ em[u].pc = "returned" /\ em[t].src = src /\ em[u].src = src)
         => em[t].result = em[u].result

\* ---- the replay
\* C5: when replay_all has returned, every row its cursor yielded has replayed = 1,
\* whether the row was sent, the send or anything before it raised, or the source
\* channel was not found.
C5_ReadRowsAreReplayed ==
  rp.pc = "returned" =>
    \A id \in rp.read : \A r \in posts : r.id = id => r.replayed = 1

\* replay_all returned after rows that went each way but the delivery: one whose
\* channel was not found or whose processing raised, never delivered.
C5_Witness ==
  /\ rp.pc = "returned"
  /\ Len(rp.rows) >= 2
  /\ rp.read = Range(rp.rows)
  /\ \E id \in rp.read : [id |-> id, via |-> "replay"] \in sent
  /\ \E id \in rp.read : [id |-> id, via |-> "replay"] \notin sent
  /\ \A id \in rp.read : PostRow(id, 1) \in posts

\* ---- what the crawl can still reach
\* C12, as a condition on finite runs. The claim has the crawl alone store every
\* tracked message within the cutoff, those posted after the channel's first
\* crawl and not seen by the live handler included. The crawl only requests ids
\* below the channel's cursor, and the cursor never increases
\* (C1_CursorNeverIncreases), so the claim needs every such message that has no
\* row to lie below its channel's cursor whenever no call is in progress. (Channels
\* holding a message older than the cutoff are left out, so that the case is the
\* claim's own.)
C12_UnstoredStaysInReach ==
  \A m \in 1..Len(msgs) :
    (/\ cr.pc = "idle"
     /\ m > Len(msgs) - arrivals
     /\ should_repost(m) /\ ~msgs[m].old
     /\ \A i \in 1..Len(msgs) : msgs[i].chan = msgs[m].chan => ~msgs[i].old
     /\ msgs[m].chan \notin inaccessible_channels
     /\ m \notin DOMAIN live
     /\ RowsOf(m) = {})
    => (get_last_seen_id(msgs[m].chan) = 0 \/ m < get_last_seen_id(msgs[m].chan))

\* ---- live and backfill on one message
\* C14 as the specification states it: when on_message has stored a message it
\* relayed (db_add_post with already_replayed=True), the row of the message has
\* replayed = 1, whatever a concurrent crawl_one did.
C14_LiveStoredIsReplayed ==
  [][\A m \in 1..MaxSize :
       on_message_store(m) => \E r \in posts' : r.id = m /\ r.replayed = 1]_vars

\* ---- the periodic reset
\* C18 as the specification states it: the periodic reset at the end of a sweep
\* returns the exhausted channels to the crawl, it empties finished_channels.
C18_ResetReturnsFinished ==
  [][(slow_crawl_sweep_end /\ sweep.sweep_number % CLEAR_EVERY = 0)
       => finished_channels' = {}]_vars

\* C19: a sweep whose number is a multiple of the period empties
\* inaccessible_channels as it ends; and a crawl_one call is made only for a
\* channel that is not in the set, and checks the permission again: it goes on
\* to the history request or caches the channel anew.
C19_ResetReturnsInaccessible ==
  [][/\ (slow_crawl_sweep_end /\ sweep.sweep_number % CLEAR_EVERY = 0)
          => inaccessible_channels' = {}
     /\ sweep'.cleared => inaccessible_channels' = {}
     /\ (cr.pc = "idle" /\ cr'.pc # "idle")
          => /\ cr'.ch \notin inaccessible_channels
             /\ cr'.pc = "fetch" \/ cr'.outcome \in {"no_permission", "finished", "ignored"}
             /\ cr'.outcome = "no_permission" => cr'.ch \in inaccessible_channels']_vars

\* A sweep has just emptied the set, and a channel saved as inaccessible is open
\* to the crawl again.
C19_Witness ==
  /\ sweep.cleared
  /\ inaccessible_channels = {}
  /\ \E ch \in DOMAIN chans : chans[ch].accessible = 0

\* ---- one bad row in the backlog
\* replay_all is over: it returned, or an exception left it.
ReplayOver == rp.pc \in {"returned", "raised"}

\* The rows of the backlog whose processing raised.
RaisedRows == {id \in DOMAIN rp.handled : rp.handled[id] = "raised"}

\* C11, as a condition on the state replay_all ends in. When the processing of
\* exactly one backlog row raised and no other row failed in any other way
\* (channel not found, delivery given up), that row has replayed = 1 and was not
\* delivered by the replay, and every other row of the backlog, before and after
\* it, was delivered and has replayed = 1.
C11_BadRowDoesNotStopBacklog ==
  (/\ ReplayOver
   /\ Cardinality(RaisedRows) = 1
   /\ \A id \in DOMAIN rp.handled : rp.handled[id] \in {"raised", "sent"})
  => \A k \in 1..Len(rp.rows) :
       LET id == rp.rows[k]
       IN /\ \E r \in posts : r.id = id /\ r.replayed = 1
          /\ id \in RaisedRows => [id |-> id, via |-> "replay"] \notin sent
          /\ id \notin RaisedRows => [id |-> id, via |-> "replay"] \in sent

\* C17, the replay half: no error raised for one backlog row leaves replay_all as
\* an exception; the row loop always reaches the end of the backlog. (The crawl
\* half holds: slow_crawl_error returns slow_crawl to a further sweep.)
C17_RowErrorsAreContained ==
  rp.pc # "raised"

\* ---- the replayed flag
\* C13: over crawl, live insert, startup and replay, no posts row goes from
\* replayed = 1 back to 0 (nor is it removed): not in the committed table in any
\* step, and not in the table the running process sees in any step of it. A flag
\* therefore goes from 0 to 1 at most once.
C13_ReplayedNeverCleared ==
  [][/\ \A r \in disk.posts : r.replayed = 1 => PostRow(r.id, 1) \in disk'.posts
     /\ \A r \in disk'.posts : r.replayed = 0 => PostRow(r.id, 1) \notin disk.posts
     /\ ~Restart => \A r \in posts : r.replayed = 1 =>
                      /\ PostRow(r.id, 1) \in posts'
                      /\ PostRow(r.id, 0) \notin posts']_vars

\* A row the replay took from 0 to 1, next to a row the crawl stored since with 0
\* and a row the live handler stored since with 1.
C13_Witness ==
  /\ \E r \in rp.snapshot : r.replayed = 0 /\ PostRow(r.id, 1) \in disk.posts
  /\ \E r \in disk.posts : r.replayed = 0 /\ r.id \in cr.inserted
  /\ \E r \in disk.posts : r.replayed = 1 /\ r.id \notin PostIds(rp.snapshot)

\* ---- what is sent to the mirror
\* C15: every delivery to the mirror is either made by on_message for the message
\* it is handling, or made by replay_all for the row its cursor is at, a row that
\* had replayed = 0 in the table the cursor was opened on; a row that had
\* replayed = 1 then is never delivered by the replay.
C15_SendsAreLiveOrUnreplayed ==
  [][\A e \in sent' \ sent :
       \/ /\ e.via = "live"
          /\ e.id \in DOMAIN live /\ live[e.id] = "relay"
       \/ /\ e.via = "replay"
          /\ rp.pc = "send" /\ e.id = rp.rows[rp.i]
          /\ PostRow(e.id, 0) \in rp.snapshot
          /\ PostRow(e.id, 1) \notin rp.snapshot]_vars

\* The replay delivered a row while the table it selected from also held a row
\* with replayed = 1, which it did not deliver, and on_message delivered a message.
C15_Witness ==
  /\ \E e \in sent : e.via = "replay" /\ e.id \in rp.read
  /\ \E e \in sent : e.via = "live"
  /\ \E r \in rp.snapshot : r.replayed = 1 /\ [id |-> r.id, via |-> "replay"] \notin sent

\* ---- mark, then send
\* C16: whenever replay_all is about to send a row, replayed = 1 is committed for
\* it, and replay_all never delivers a row that a replay delivered before,
\* in this process or in an earlier one that was stopped at any point.
C16_NoDuplicateReplay ==
  [][/\ rp'.pc = "send" => PostRow(rp'.rows[rp'.i], 1) \in disk'.posts
     /\ replay_all_send("sent") => [id |-> rp.rows[rp.i], via |-> "replay"] \notin sent]_vars

\* A rerun of replay_all, after a stop, delivers a row while the deliveries hold
\* a row of the run before, which this run did not select.
C16_Witness ==
  /\ rp.pc = "pause"
  /\ [id |-> rp.rows[rp.i], via |-> "replay"] \in sent
  /\ \E e \in sent : e.via = "replay" /\ e.id \notin Range(rp.rows) /\ PostRow(e.id, 1) \in rp.snapshot

\* ---- author names
\* C20: once an author's name is not NULL, no step changes it, whatever name a
\* db_add_author call of the crawl or of the live handler carries: not in the
\* committed table in any step, and not in the table the running process sees in
\* any step of it. A row with a NULL name takes the name of the first UPDATE of
\* db_add_author that finds it, and an author with no row the name of the INSERT.
C20_FirstNameIsKept ==
  [][/\ \A a \in DOMAIN disk.authors : disk.authors[a] # NULL =>
          a \in DOMAIN disk'.authors /\ disk'.authors[a] = disk.authors[a]
     /\ ~Restart => \A a \in DOMAIN authors : authors[a] # NULL =>
          a \in DOMAIN authors' /\ authors'[a] = authors[a]
     /\ \A t \in AuthorTasks, name \in Names :
          (db_add_author_update(t, name) /\ aa[t].u \in DOMAIN authors
             /\ authors[aa[t].u] = NULL) => authors'[aa[t].u] = name
     /\ \A t \in AuthorTasks, u \in Authors, name \in Names :
          (db_add_author_insert(t, u, name) /\ u \notin DOMAIN authors)
            => authors'[u] = name]_vars

\* A db_add_author call has run both statements with another name than the one
\* committed for its author, a seed author whose name was NULL at first; the
\* committed name is still in the table.
C20_Witness ==
  \E t \in AuthorTasks :
    /\ aa[t].pc = "commit"
    /\ aa[t].u \in SEED_BLUE_IDS
    /\ disk.authors[aa[t].u] \in Names \ {aa[t].name}
    /\ authors[aa[t].u] = disk.authors[aa[t].u]

\* ---- an interrupted call
\* C21, the part a rerun depends on. crawl_one is cut short by a stop of the
\* process while it scans a page with no message older than the cutoff (no
\* message arrived in the run). Every tracked message of the page that the cut
\* call had not stored yet is then still below the cursor the next call of the
\* channel starts from (get_last_seen_id), or that call starts with no cursor,
\* so that the rerun stores what the uninterrupted call would have stored.
C21_RerunStoresTheRest ==
  [][\A ch \in ChannelsOf(targets) : \A k \in 1..PAGE_SIZE :
       (/\ Restart
        /\ arrivals = 0
        /\ cr.ch = ch /\ cr.pc \in {"scan", "insert"}
        /\ \A j \in 1..Len(cr.page) : ~msgs[cr.page[j]].old
        /\ k >= cr.idx /\ k <= Len(cr.page)
        /\ should_repost(cr.page[k])
        /\ cr.page[k] \notin PostIds(disk.posts))
       => \/ get_last_seen_id(ch)' = 0
          \/ cr.page[k] < get_last_seen_id(ch)']_vars

\* ---- a failed history request
\* The failures of the history request that are neither Forbidden nor HTTP 403,
\* the timeout apart.
OtherFailures == {"http429", "http5xx", "http_other", "error"}

\* C22: when the history request fails with 429, a 5xx status or any other
\* failure that is not a 403, the step leaves inaccessible_channels, the channels
\* table (accessible stays 1), the cursor and the posts table as they were, and
\* none of crawl_one's skips applies to the channel afterwards: the next sweep
\* requests its history again.
C22_TransientFailureChangesNothing ==
  [][\A ch \in ChannelsOf(targets) : \A result \in OtherFailures :
       (cr.ch = ch /\ crawl_one_history(result))
       => /\ inaccessible_channels' = inaccessible_channels
          /\ ch \notin inaccessible_channels'
          /\ chans' = chans /\ chans'[ch].accessible = 1
          /\ progress' = progress /\ posts' = posts /\ disk' = disk
          /\ get_last_seen_id(ch)' = get_last_seen_id(ch)
          /\ crawl_one_skips(ch)' = "none"]_vars

\* A call ended by such a failure, for a channel that has a cursor and rows.
C22_Witness ==
  /\ cr.pc = "returned" /\ cr.outcome \in OtherFailures
  /\ cr.ch \in DOMAIN progress
  /\ \E r \in posts : r.chan = cr.ch
  /\ chans[cr.ch].accessible = 1
  /\ cr.ch \notin inaccessible_channels

\* ---- a history request that times out
\* C23 as stated: a call whose history request times out leaves the channel's row
\* of the channels table, with the cursor, the posts table and the two caches,
\* exactly as they were before the call. The call consists of its head, up to
\* the request, and of the request's timeout.
C23_TimedOutCallChangesNothing ==
  [][\A ch \in ChannelsOf(targets) :
       /\ (crawl_one_begin(TRUE) /\ cr'.pc = "fetch" /\ cr'.ch = ch)
          => /\ ch \in DOMAIN chans /\ chans' = chans
             /\ UNCHANGED << posts, progress, disk, inaccessible_channels, finished_channels >>
       /\ (cr.ch = ch /\ crawl_one_history("timeout"))
          => UNCHANGED << chans, posts, progress, disk, inaccessible_channels,
                          finished_channels >>]_vars

\* C23, amended: the timeout leaves the cursor, the posts table and the two caches
\* as they were when the call started, and the channel's row is the one the head
\* of the call wrote (accessible 1, the thread's parent); no skip of crawl_one
\* applies to the channel afterwards, so the next sweep requests its history again.
C23_TimedOutCallOnlySavesChannel ==
  [][\A ch \in ChannelsOf(targets) :
       (cr.ch = ch /\ crawl_one_history("timeout"))
       => /\ UNCHANGED << chans, posts, progress, disk, inaccessible_channels,
                          finished_channels >>
          /\ chans'[ch] = [name |-> ChannelName(ch), accessible |-> 1,
                           parent_id |-> IF IsThread(ch) THEN ParentId(ch) ELSE NULL]
          /\ CallRow(ch) = cr.prog0 /\ cr.inserted = {}
          /\ ~cr.fin0 /\ ch \notin finished_channels'
          /\ ch \notin inaccessible_channels'
          /\ get_last_seen_id(ch)' = get_last_seen_id(ch)
          /\ crawl_one_skips(ch)' = "none"]_vars

\* A call of a thread that has a cursor ended by the timeout.
C23_Witness ==
  /\ cr.pc = "returned" /\ cr.outcome = "timeout"
  /\ IsThread(cr.ch)
  /\ chans[cr.ch].accessible = 1
  /\ \E c \in DOMAIN progress : TRUE

C25_NothingBeforeCutoff ==
  [][/\ crawl_one_insert => \A r \in posts' \ posts : ~msgs[r.id].old
     /\ \A m \in cr'.inserted : ~msgs[m].old
     /\ (crawl_one_message /\ cr.idx <= Len(cr.page) /\ msgs[cr.page[cr.idx]].old)
          => /\ cr.ch \in finished_channels'
             /\ cr'.pc = "progress" /\ cr'.idx = cr.idx
             /\ UNCHANGED << posts, authors, blue_ids >>
     /\ (cr.pc \in {"progress", "commit"} /\ cr'.ch = cr.ch)
          => /\ cr'.pc \in {"progress", "commit", "returned"}
             /\ cr'.inserted = cr.inserted]_vars

\* A call ended at a message older than the cutoff, with a tracked message later
\* in the page that it did not handle.
C25_Witness ==
  /\ cr.pc = "returned" /\ cr.outcome = "done"
  /\ cr.idx < Len(cr.page)
  /\ msgs[cr.page[cr.idx]].old
  /\ should_repost(cr.page[Len(cr.page)])
  /\ cr.page[Len(cr.page)] \notin PostIds(posts)
  /\ cr.ch \in finished_channels

\* ---- the order of the replay
\* C26: within one run of replay_all the rows are taken up and sent oldest first
\* (ids stand for the timestamps, which grow with them): the rows of the cursor
\* are in non-decreasing order, and when a row is sent no row handled before it
\* in the run is newer.
C26_ReplayedOldestFirst ==
  [][/\ \A i \in 1..Len(rp'.rows) : \A j \in 1..Len(rp'.rows) :
          i < j => rp'.rows[i] <= rp'.rows[j]
     /\ (\E result \in {"sent", "gave_up", "raised"} : replay_all_send(result))
          => /\ \A id \in DOMAIN rp.handled : id <= rp.rows[rp.i]
             /\ \A e \in sent' \ sent : \A k \in 1..(rp.i - 1) : rp.rows[k] <= e.id]_vars

\* The run has sent a second row after an earlier one.
C26_Witness ==
  /\ rp.pc = "pause" /\ rp.i >= 2
  /\ [id |-> rp.rows[rp.i], via |-> "replay"] \in sent
  /\ \E k \in 1..(rp.i - 1) :
       /\ rp.rows[k] \in DOMAIN rp.handled /\ rp.handled[rp.rows[k]] = "sent"
       /\ rp.rows[k] < rp.rows[rp.i]

\* ---- a row whose channel is gone
\* C27: when the lookup of a row's source channel raises NotFound, the step marks
\* the row replayed = 1, delivers nothing and leaves the mirror provisioning and
\* the publisher untouched, and the loop is at the next row; the replay has not
\* delivered a row it handled this way.
C27_NotFoundIsMarkedAndSkipped ==
  [][/\ replay_all_row("not_found")
          => /\ PostRow(rp.rows[rp.i], 1) \in posts'
             /\ PostRow(rp.rows[rp.i], 0) \notin posts'
             /\ UNCHANGED << sent, em, mirror_cache, dst, ws >>
             /\ rp'.pc = "row" /\ rp'.i = rp.i + 1 /\ rp'.rows = rp.rows
     /\ \A id \in DOMAIN rp'.handled :
          rp'.handled[id] = "not_found" => [id |-> id, via |-> "replay"] \notin sent']_vars

\* A row was skipped for its missing channel and the row after it was sent.
C27_Witness ==
  \E k \in 1..(Len(rp.rows) - 1) :
    /\ rp.rows[k] \in DOMAIN rp.handled /\ rp.handled[rp.rows[k]] = "not_found"
    /\ rp.rows[k + 1] \in DOMAIN rp.handled /\ rp.handled[rp.rows[k + 1]] = "sent"
    /\ PostRow(rp.rows[k], 1) \in posts
    /\ [id |-> rp.rows[k + 1], via |-> "replay"] \in sent

\* ---- the mirror cache
\* C28: once ensure_mirror has returned a destination for a source channel (the
\* return stores it in mirror_cache), the cache keeps that destination for the
\* channel, a later call for the channel returns it at once, with no lookup and
\* no creation, and a call that fails leaves the cache as it was.
C28_CachedMirrorIsKept ==
  [][/\ \A src \in DOMAIN mirror_cache :
          src \in DOMAIN mirror_cache' /\ mirror_cache'[src] = mirror_cache[src]
     /\ \A t \in Tasks : \A src \in DOMAIN mirror_cache :
          ensure_mirror_call(t, src)
            => /\ em'[t].pc = "returned" /\ em'[t].result = mirror_cache[src]
               /\ dst' = dst
     /\ \A t \in Tasks :
          (em[t].pc # "raised" /\ em'[t].pc = "raised") => mirror_cache' = mirror_cache]_vars

\* ---- one webhook per destination channel
\* C29: no destination channel ever has more than one webhook named BlueTracker,
\* whichever tasks call get_webhook for it and however their calls interleave,
\* also after the cache was lost with a restart.
C29_OneWebhookPerChannel ==
  \A ch \in DstChannels : hooks[ch] <= 1

\* ---- attempts and sleeps of the publisher
\* C30: a call of safe_webhook_send makes at most MAX_RETRIES attempts; attempt k
\* (from 0) that fails with another HTTP status than 429 and is not the last is
\* followed by a sleep of 2^k; an attempt answered 429 is followed by a sleep of
\* the interval r the answer asks for, and of nothing more.
C30_AttemptsAndSleeps ==
  /\ Len(ws.log) <= MAX_RETRIES
  /\ \A i \in 1..Len(ws.log) :
       /\ (ws.log[i].status = 500 /\ i < MAX_RETRIES) => ws.log[i].slept = Pow2(i - 1)
       /\ ws.log[i].status = 429 => ws.log[i].slept = ws.log[i].r

\* ---- execute_with_retry
\* C31: execute_with_retry runs the statement at most max_retries times; every
\* attempt before the last one made failed with "database is locked" and was
\* followed by a sleep of 0.1 * 2^attempt seconds; a lock error is raised only on
\* the last of the max_retries attempts, any other error is raised by the attempt
\* it occurs in, and the cursor returned is that of the first attempt that
\* succeeded.
C31_BoundedLockRetry ==
  LET n == Len(xr.log)
  IN /\ n <= xr.max_retries
     /\ \A i \in 1..n :
          /\ i < n => xr.log[i].outcome = "locked" /\ xr.log[i].slept = Pow2(i - 1)
          /\ xr.log[i].outcome \in {"operational_error", "error"} => xr.pc = "raised"
          /\ (xr.log[i].outcome = "locked" /\ i < xr.max_retries) => xr.log[i].slept = Pow2(i - 1)
     /\ xr.pc = "sleep" => n < xr.max_retries /\ xr.log[n].outcome = "locked"
     /\ xr.pc = "raised" =>
          /\ xr.log[n].outcome # "cursor"
          /\ xr.log[n].outcome = "locked" => n = xr.max_retries
     /\ xr.pc = "returned" =>
          /\ xr.log[n].outcome = "cursor" /\ xr.cursor = n
          /\ \A i \in 1..(n - 1) : xr.log[i].outcome # "cursor"
\* Two lock errors, then the third attempt returns its cursor.
C31_Witness ==
  /\ xr.pc = "returned" /\ xr.max_retries = 3 /\ Len(xr.log) = 3
  /\ xr.log[1].outcome = "locked" /\ xr.log[2].slept = 2
  /\ xr.cursor = 3

\* ---- replay, then crawl
\* A step slow_crawl can take where it stands.
SweepStep ==
  \/ slow_crawl_skip
  \/ \E perm \in BOOLEAN : crawl_one_begin(perm)
  \/ slow_crawl_sweep_end
\* C32: with REPLAY_MODE, as long as replay_all has not returned slow_crawl has
\* not started (no sweep is under way, no crawl_one call and so no history
\* fetch), and once replay_all has returned slow_crawl runs: at the head of a
\* sweep position its next step can be taken.
C32_CrawlOnlyAfterReplay ==
  /\ rp.pc # "returned" => cr = IdleCall /\ sweep = FirstSweep
  /\ (rp.pc = "returned" /\ cr.pc = "idle") => ENABLED (replay_then_crawl /\ SweepStep)
\* The backlog has been replayed and slow_crawl waits for a page, while an
\* on_message handler is in flight.
C32_Witness ==
  /\ rp.pc = "returned" /\ Len(rp.rows) > 0
  /\ cr.pc = "fetch"
  /\ \E m \in DOMAIN live : live[m] = "store"

\* ---- display names
\* C33: the name a relayed post is shown with is the first that exists of: the
\* non-empty gm_names row of the author, the author's GM_NAME_OVERRIDES entry, the
\* fallback name (the live display name in repost_live, the stored author_name in
\* replay_all), and "ID <author_id>".
C33_NamePrecedence ==
  gn.pc = "returned" =>
    gn.result =
      IF gn.row # NULL /\ gn.row # "" THEN gn.row
      ELSE IF gn.author \in DOMAIN GM_NAME_OVERRIDES THEN GM_NAME_OVERRIDES[gn.author]
      ELSE IF gn.caller = "repost_live" THEN gn.fallback_name
      ELSE IF gn.stored # NULL THEN gn.stored
      ELSE RawId(gn.author)

\* ---- the page and the cutoff
\* C34: when a crawl_one call has gone through its page and returned, every
\* message of the page that is not older than the cutoff and is by a tracked
\* author has a row in posts, also when the page holds older messages.
C34_WholePageIsStored ==
  (cr.pc = "returned" /\ cr.outcome = "done") =>
    \A k \in 1..Len(cr.page) :
      (~before_cutoff(cr.page[k]) /\ should_repost(cr.page[k]))
        => cr.page[k] \in PostIds(posts)

\* ---- errors inside a sweep
\* C35: what is raised for one channel of a sweep does not keep slow_crawl from
\* the channels and threads later in the sweep order: the next sweep starts
\* (sweep_number += 1) from the last position or from behind it, never from a
\* position that has others after it.
C35_SweepGetsToLaterChannels ==
  [][sweep'.sweep_number # sweep.sweep_number => sweep.pos >= Len(targets)]_vars

\* ---- ignored channels
\* C36: no message of a channel in IGNORED_CHANNELS has a row in posts, is handled
\* by on_message past should_repost or has been sent, and no crawl_one call gets
\* to its history request for such a channel.
C36_IgnoredChannelsAreLeftOut ==
  /\ \A r \in posts : r.chan \notin IGNORED_CHANNELS
  /\ \A m \in DOMAIN live : msgs[m].chan \notin IGNORED_CHANNELS
  /\ \A e \in sent : msgs[e.id].chan \notin IGNORED_CHANNELS
  /\ cr.pc \in {"fetch", "scan", "insert", "progress", "commit"}
       => cr.ch \notin IGNORED_CHANNELS
\* crawl_one was called for an ignored thread that holds a message by a tracked
\* author within the cutoff, and returned at its first test.
C36_Witness ==
  /\ cr.pc = "returned" /\ cr.outcome = "ignored"
  /\ cr.ch \in IGNORED_CHANNELS
  /\ \E m \in 1..Len(msgs) :
       /\ msgs[m].chan = cr.ch /\ ~msgs[m].old
       /\ msgs[m].author \in TRACKED_ROLE_HOLDERS

\* ---- what the live path stores
\* C37: when on_message writes a row with replayed = 1, the message has been
\* delivered to its mirror by repost_live.
C37_LiveRowWasDelivered ==
  [][\A m \in 1..MaxSize :
       (on_message_store(m) /\ PostRow(m, 1) \in posts' \ posts)
         => [id |-> m, via |-> "live"] \in sent]_vars

\* ---- what replay_all leaves committed
\* C38: when replay_all has returned, every row it took up and marked replayed is
\* marked so in the committed store as well.
C38_MarksAreCommitted ==
  rp.pc = "returned" =>
    \A r \in posts : (r.id \in rp.read /\ r.replayed = 1) => r \in disk.posts

\* ---- the row of an inaccessible thread
\* C39: when crawl_one caches a thread as inaccessible, the thread's channels row
\* has accessible = 0 and still the thread's name and the id of its parent.
C39_ThreadRowKeepsParent ==
  [][\A ch \in ChannelsOf(targets) :
       (IsThread(ch) /\ ch \in inaccessible_channels' \ inaccessible_channels)
         => /\ ch \in DOMAIN chans'
            /\ chans'[ch].accessible = 0
            /\ chans'[ch].name = ChannelName(ch)
            /\ chans'[ch].parent_id = ParentId(ch)]_vars

\* ---- the mirror after an eviction
\* The destination guild holds no two objects of a kind with the same name.
NoDuplicates ==
  \A o, q \in dst : (o.kind = q.kind /\ o.name = q.name) => o.id = q.id
\* C40: when ensure_mirror is called for a source channel that is not in
\* mirror_cache (its key was evicted, or a restart emptied the cache) and whose
\* destination exists, the guild holding no duplicate so far and no other call
\* being in progress, the call returns that destination and nothing is created.
C40_EvictedMirrorIsResolved ==
  [][\A t \in Tasks : \A src \in ChannelsOf(targets) :
       (/\ ensure_mirror_call(t, src)
        /\ src \notin DOMAIN mirror_cache
        /\ MirrorsOf(src) # {} /\ NoDuplicates
        /\ \A u \in Tasks : em[u].pc \in {"idle", "returned", "raised"})
       => /\ em'[t].pc = "returned"
          /\ em'[t].result \in {o.id : o \in MirrorsOf(src)}]_vars

====
